---------------------------- MODULE Spec2Model ----------------------------
(***************************************************************************)
(* Model of the operation-entry bot (src/bot.py) and of its ledger access  *)
(* layer (src/sheet_service.py).                                           *)
(*                                                                         *)
(*   Spec        one user's dialog: the guided ConversationHandler flow,   *)
(*               the free-text fast path, and the register they commit to  *)
(*   SpecFunds   the fund distribution pass over the day's inflow          *)
(*   SpecAppend  two register appends whose read and write interleave      *)
(*                                                                         *)
(* Money is an integer number of kopecks (1/100 of the currency unit).     *)
(* A dict of the program is a function from its keys to <<>> (key absent)  *)
(* or <<v>> (key present with value v).                                    *)
(***************************************************************************)
EXTENDS Integers, Sequences, FiniteSets, TLC

(***************************************************************************)
(* Bounds of the model.                                                    *)
(***************************************************************************)
MaxRows == 1          \* rows in the register of Spec after which it is full
MaxLeftover == 0      \* fields of an old draft a new operation of Spec may find
MaxAfter == 1         \* fields Spec lets a draft hold once the register is full
MaxFundRows == 5      \* rows the register holds in SpecFunds
MaxUserRows == 2      \* rows of them that no fund distribution pass wrote
MaxInflow == 2        \* largest single inflow of SpecFunds, in currency units
MaxAppendRows == 3    \* rows the register holds in SpecAppend
MaxCacheRows == 3     \* rows the register holds in SpecCache
MaxNow == 306         \* seconds of the clock SpecReads follows
Tick == 150           \* seconds between two events of SpecReads
MaxSlept == 6         \* seconds a fetch of SpecReads sleeps after a tick
MaxSlots == 2         \* wallet slots of the spreadsheet
MaxRevenueSteps == 12 \* new revenues of SpecRule, in steps of 125 currency units
MaxRules == 2         \* fund rules of SpecFundSettings
MaxDicts == 2         \* rule dicts the lists of SpecFundSettings hold
MaxWallets == 19      \* wallets of the long list of SpecPages
MaxArticles == 10     \* inflow categories of the list of SpecPages
MaxGridRows == 4      \* rows of the register sheet of SpecSheet
MaxMatchWallets == 2  \* wallets of the list of SpecMatch
MaxTextLen == 4       \* characters of a remainder text of SpecMatch
MaxWords == 3         \* words of a message of SpecParse
MaxFetches == 1       \* fetches of _cached in flight in SpecCacheRace

(***************************************************************************)
(* Reference data of the remote spreadsheet.                               *)
(***************************************************************************)
WALLETS == <<"Bank", "Cash">>
ARTICLES_IN == <<"Sales">>
ARTICLES_OUT == <<"Rent">>
ARTICLE_TRANSFER_OUT == "Transfer between accounts (out)"
ARTICLE_TRANSFER_IN == "Transfer between accounts (in)"
DIRECTION == "Main"
LIST_PAGE_SIZE == 9
TODAY == <<2, 11, 2026>>
YESTERDAY == <<1, 11, 2026>>

(***************************************************************************)
(* Dicts.                                                                  *)
(***************************************************************************)
Absent == <<>>
Has(d, k) == d[k] # Absent
Get(d, k) == d[k][1]
GetOr(d, k, dflt) == IF Has(d, k) THEN d[k][1] ELSE dflt
Put(d, k, v) == [d EXCEPT ![k] = <<v>>]
Pop(d, k) == [d EXCEPT ![k] = Absent]

SeqToSet(s) == {s[i] : i \in 1..Len(s)}

(***************************************************************************)
(* sheet_service._parse_amount, on a text given as its characters.  The    *)
(* result is <<>> (None) or <<v>>, v in kopecks; the texts of the model    *)
(* carry at most two decimals, so v is exact.                              *)
(***************************************************************************)
Digits == {"0", "1", "2", "3", "4", "5", "6", "7", "8", "9"}

DigitVal(c) ==
    CASE c = "0" -> 0 [] c = "1" -> 1 [] c = "2" -> 2 [] c = "3" -> 3
      [] c = "4" -> 4 [] c = "5" -> 5 [] c = "6" -> 6 [] c = "7" -> 7
      [] c = "8" -> 8 [] c = "9" -> 9

RECURSIVE NumOf(_)
NumOf(s) == IF s = <<>> THEN 0 ELSE NumOf(SubSeq(s, 1, Len(s) - 1)) * 10 + DigitVal(s[Len(s)])

CountOf(s, c) == Cardinality({i \in 1..Len(s) : s[i] = c})

\* float(s) of a string over digits, "." and "-": <<>> on ValueError.
FloatOf(s) ==
    LET neg == Len(s) > 0 /\ s[1] = "-"
        body == IF neg THEN Tail(s) ELSE s
        dots == {i \in 1..Len(body) : body[i] = "."}
        p == IF dots = {} THEN Len(body) + 1 ELSE CHOOSE i \in dots : TRUE
        whole == SubSeq(body, 1, p - 1)
        frac == SubSeq(body, p + 1, Len(body))
        cents == IF Len(frac) = 0 THEN 0
                 ELSE IF Len(frac) = 1 THEN DigitVal(frac[1]) * 10
                 ELSE DigitVal(frac[1]) * 10 + DigitVal(frac[2])
        v == NumOf(whole) * 100 + cents
    IN  IF CountOf(body, "-") > 0 \/ Cardinality(dots) > 1
           \/ Len(whole) + Len(frac) = 0
        THEN <<>>
        ELSE <<IF neg THEN 0 - v ELSE v>>

\* The characters of the texts of the model.
Chars(text) ==
    CASE text = "2" -> <<"2">>
      [] text = "1,5" -> <<"1", ",", "5">>
      [] text = "0" -> <<"0">>
      [] text = "-5" -> <<"-", "5">>
      [] text = "abc" -> <<"a", "b", "c">>
      [] text = "1.2.3" -> <<"1", ".", "2", ".", "3">>
      [] text = " Acme " -> <<" ", "A", "c", "m", "e", " ">>
      [] text = "--" -> <<"-", "-">>
      [] text = "50" -> <<"5", "0">>
      [] text = "150" -> <<"1", "5", "0">>
      [] text = "inv2" -> <<"i", "n", "v", "2">>
      [] text = "5000" -> <<"5", "0", "0", "0">>

parse_amount(text) ==
    LET s1 == SelectSeq(Chars(text), LAMBDA c : c # " ")
        s2 == [i \in 1..Len(s1) |-> IF s1[i] = "," THEN "." ELSE s1[i]]
        s3 == SelectSeq(s2, LAMBDA c : c \in Digits \cup {".", "-"})
    IN  IF s1 = <<>> THEN <<>> ELSE FloatOf(s3)

\* The texts a user types where an amount is asked for.
AmountTexts == {"2", "1,5", "0", "-5", "abc", "1.2.3"}

(***************************************************************************)
(* bot._validate_date: a text that matches DATE_PATTERN is its three       *)
(* numbers <<day, month, year>>; any other text is <<>>.  The result is    *)
(* <<>> (None) or <<date>>.                                                *)
(***************************************************************************)
DaysIn(m, y) ==
    IF m \in {4, 6, 9, 11} THEN 30
    ELSE IF m = 2
         THEN (IF (y % 4 = 0 /\ y % 100 # 0) \/ y % 400 = 0 THEN 29 ELSE 28)
         ELSE 31

validate_date(text) ==
    IF text = <<>> THEN <<>>
    ELSE LET d == text[1]
             m == text[2]
             y == text[3]
         IN  IF m >= 1 /\ m <= 12 /\ y >= 1 /\ d >= 1 /\ d <= DaysIn(m, y)
             THEN <<text>>
             ELSE <<>>

\* The texts a user types where a date is asked for.
DateTexts == { TODAY, <<31, 2, 2026>>, <<>> }


(***************************************************************************)
(* State.                                                                  *)
(***************************************************************************)
VARIABLES
    conv,               \* the user's state in the ConversationHandler
    user_data,          \* context.user_data of the user
    text_edit_waiting,  \* user in _text_edit_waiting_user_ids
    register,           \* rows C..I of the register sheet, in row order
    reply,              \* what the last handled event showed the user
    last,               \* the handler branch that handled the last event
    snap,               \* conv and draft before the last back, for one event
    fund_rules,         \* bot_data["fund_rules"]
    funds,              \* the last fund distribution pass and ledger call
    workers,            \* the worker threads' calls in flight
    cache,              \* DDSSheetService._cache
    now,                \* time.monotonic(), in seconds
    served,             \* the last read of the ledger and how it was served
    book,               \* the wallet slots of the spreadsheet
    adding,             \* the slot each user's "add wallet" flow has taken
    added,              \* the last call of add_wallet
    rule_run,           \* one rule of the distribution loop and its amount
    settings,           \* the fund rule settings: user_data keys, rule dicts
    sheets,             \* the wallets and the categories of the spreadsheet
    access              \* the allow-list and the user the updates come from

vars == <<conv, user_data, text_edit_waiting, register, reply, last, snap,
          fund_rules, funds, workers, cache, now, served, book, adding, added,
                   rule_run, settings,
                   sheets, access>>

\* ConversationHandler.END and the states of main()'s ConversationHandler.
END == "END"
ConvStates ==
    { "DATE", "TYPE_OP", "ARTICLE", "WALLET", "AMOUNT", "COUNTERPARTY",
      "PURPOSE", "CONFIRM", "CONFIRM_EDIT_MENU", "CONFIRM_EDIT_ARTICLE",
      "CONFIRM_EDIT_WALLET", "CONFIRM_EDIT_INPUT", "TRANSFER_FROM",
      "TRANSFER_TO", "TRANSFER_AMOUNT", "TRANSFER_PURPOSE",
      "TRANSFER_CONFIRM" }

\* The fields of an operation draft, and the other keys of user_data.
DraftKeys ==
    { "date", "type", "article", "wallet", "wallet_from", "wallet_to",
      "amount", "counterparty", "purpose" }
OtherKeys ==
    { "_from_text", "_waiting_for", "_edit_field", "_conv_message_id",
      "_articles", "_articles_page", "_wallets", "_wallets_page",
      "_text_articles", "_text_articles_page", "_edit_wallets",
      "_edit_wallets_page", "_text_edit_articles",
      "_text_edit_articles_page", "_last_balance_wallets" }
Keys == DraftKeys \cup OtherKeys

EmptyUD == [k \in Keys |-> Absent]
Draft(ud) == [k \in DraftKeys |-> ud[k]]
EmptyDraft == [k \in DraftKeys |-> Absent]

NoSnap == [conv |-> "-", draft |-> EmptyDraft, age |-> 0]
\* snap after an event that is not a back: what a back just before it
\* remembered is kept for this one event (age 1), then dropped.
Aged(ev, sn) == IF ev = "back" THEN [sn EXCEPT !.age = 1] ELSE NoSnap

\* What the texts typed for a counterparty or a memo are.
\* The em dash a user types to blank a field in an edit input.
DASH == "--"
\* str.strip() on the texts of the model.
strip(t) == IF t = " Acme " THEN "Acme" ELSE t
\* The texts a user types for a counterparty or a memo.
FreeTexts == {" Acme ", DASH}

(***************************************************************************)
(* Reads of the ledger access layer as a handler sees them: the value, or  *)
(* the exception left after _retry_sheets_fetch gave up.                   *)
(***************************************************************************)
Failed == [ok |-> FALSE, val |-> <<>>]
Fetched(v) == [ok |-> TRUE, val |-> v]

\* The wallets and the categories of the spreadsheet of the dialog.
Directories ==
    [wallets |-> WALLETS, articles_in |-> ARTICLES_IN,
     articles_out |-> ARTICLES_OUT]

get_wallets == {Failed, Fetched(sheets.wallets)}

get_articles_by_type_sorted_by_usage(group) ==
    {Failed, Fetched(<<>>),
     Fetched(IF group = "in" THEN sheets.articles_in
             ELSE sheets.articles_out)}

\* get_transfer_articles: the pair, ValueError (no such articles), or the
\* exception of a failed read.
get_transfer_articles == {"ok", "ValueError", "failed"}

\* get_default_business_direction() or get_business_directions()[0]
get_direction == {Failed, Fetched(DIRECTION)}

\* The register of the model is full: the sheet takes no further row.
Full(reg) == Len(reg) >= MaxRows

\* Once the register is full the model follows a new operation only while
\* its draft holds at most MaxAfter fields.
Bounded ==
    Full(register') =>
        Cardinality({k \in DraftKeys : Has(user_data', k)}) <= MaxAfter

(***************************************************************************)
(* One handled event of the dialog: the handler's return value, the        *)
(* user_data it leaves, and the message it shows.                          *)
(***************************************************************************)
Handled(c, ud, r, ev) ==
    /\ conv' = c
    /\ user_data' = ud
    /\ reply' = r
    /\ last' = ev
    /\ snap' = Aged(last, snap)
    /\ UNCHANGED <<text_edit_waiting, register, fund_rules, funds, workers,
                   cache, now, served, book, adding, added,
                   rule_run, settings,
                   sheets, access>>
    /\ Bounded

\* The same for a back button: conv and draft before it are remembered.
HandledBack(c, ud, r) ==
    /\ conv' = c
    /\ user_data' = ud
    /\ reply' = r
    /\ last' = "back"
    /\ snap' = [conv |-> conv, draft |-> Draft(user_data), age |-> 0]
    /\ UNCHANGED <<text_edit_waiting, register, fund_rules, funds, workers,
                   cache, now, served, book, adding, added,
                   rule_run, settings,
                   sheets, access>>
    /\ Bounded

\* The page a page button leads to, were the next button never refused
turn_page_unchecked(next, page, n) ==
    IF next THEN <<page + 1>>
    ELSE IF page > 0 THEN <<page - 1>>
    ELSE <<>>

\* The page a page button leads to in a list of n options shown
\* LIST_PAGE_SIZE to a page: <<>> when the button does nothing.
turn_page(next, page, n) ==
    IF next /\ (page + 1) * LIST_PAGE_SIZE < n THEN <<page + 1>>
    ELSE IF ~next /\ page > 0 THEN <<page - 1>>
    ELSE <<>>

\* The page branch of a list handler of the conversation: the list under
\* key items is shown again at the page the button leads to.
PageTurned(c, items, page_key, next, r) ==
    LET to == turn_page(next, GetOr(user_data, page_key, 0),
                        Len(GetOr(user_data, items, <<>>)))
    IN  IF to = <<>> THEN Handled(c, user_data, "none", "page_refused")
        ELSE Handled(c, Put(user_data, page_key, to[1]), r, "page")

WithWindow(ud) == Put(ud, "_conv_message_id", TRUE)

\* The user begins a new operation with at most MaxLeftover fields of an
\* older draft still in user_data (after more, the user sends /cancel first).
NewOperation ==
    Cardinality({k \in DraftKeys : Has(user_data, k)}) <= MaxLeftover

\* start_step (/start, /step: entry point and fallback of the conversation)
start_step ==
    /\ NewOperation
    /\ Handled("DATE", WithWindow(user_data), "ask_date", "start")

\* add_operation_from_button (entry point of the conversation)
add_operation_from_button ==
    /\ conv = END
    /\ NewOperation
    /\ Has(user_data, "_last_balance_wallets")
    /\ Handled("DATE", WithWindow(user_data), "ask_date", "start")

\* date_today
date_today ==
    /\ conv = "DATE"
    /\ Handled("TYPE_OP", Put(user_data, "date", TODAY), "ask_type", "date")

\* date_preset: the buttons of the last days, "date:<DD.MM.YYYY>"
date_preset(d) ==
    /\ conv = "DATE"
    /\ Handled("TYPE_OP", Put(user_data, "date", d), "ask_type", "date")

\* date_text
date_text(text) ==
    /\ conv = "DATE"
    /\ LET parsed == validate_date(text)
       IN  IF parsed = <<>>
           THEN Handled("DATE", user_data, "correction", "date_invalid")
           ELSE Handled("TYPE_OP", Put(user_data, "date", parsed[1]),
                        "ask_type", "date")

\* _cancel, reached through the conversation's CB_CANCEL handlers
\* (cancel_cmd in DATE, cancel_callback in the value-entry states).
cancel_callback ==
    /\ conv \in {"DATE", "AMOUNT", "COUNTERPARTY", "PURPOSE",
                 "TRANSFER_AMOUNT", "TRANSFER_PURPOSE"}
    /\ Handled(END, EmptyUD, "cancelled", "cancel")

\* cancel_cmd for the /cancel command.  main() registers
\* CommandHandler("cancel", cancel_cmd) on the application before the
\* conversation, so this handler takes the command and its return value is
\* dropped: the conversation's fallback never sees it.
cancel_cmd ==
    Handled(conv, EmptyUD, "cancelled", "cancel_cmd")

TypeOf(data) ==
    CASE data = "type_in" -> "in" [] data = "type_out" -> "out"
      [] data = "type_tr" -> "transfer"

\* type_selected
type_selected(data) ==
    /\ conv = "TYPE_OP"
    /\ CASE data = "cancel" ->
              Handled(END, EmptyUD, "cancelled", "cancel")
         [] data = "conv_back" ->
              HandledBack("DATE", user_data, "ask_date")
         [] data \in {"type_in", "type_out"} ->
              LET ud == Put(user_data, "type", TypeOf(data))
              IN  \E articles \in get_articles_by_type_sorted_by_usage(TypeOf(data)) :
                    IF ~articles.ok
                    THEN Handled(END, EmptyUD, "fetch_error", "type_fetch_failed")
                    ELSE IF articles.val = <<>>
                    THEN Handled(END, ud, "no_articles", "type_no_articles")
                    ELSE Handled("ARTICLE",
                                 Put(Put(ud, "_articles", articles.val),
                                     "_articles_page", 0),
                                 "ask_article", "type")
         [] data = "type_tr" ->
              LET ud == Put(user_data, "type", "transfer")
              IN  \E ta \in get_transfer_articles, wallets \in get_wallets :
                    IF ta = "ValueError"
                    THEN Handled(END, ud, "no_articles", "type_no_articles")
                    ELSE IF ta = "failed" \/ ~wallets.ok
                    THEN Handled(END, EmptyUD, "fetch_error", "type_fetch_failed")
                    ELSE IF Len(wallets.val) < 2
                    THEN Handled(END, ud, "no_wallets", "type_no_wallets")
                    ELSE Handled("TRANSFER_FROM",
                                 Put(Put(ud, "_wallets", wallets.val),
                                     "_wallets_page", 0),
                                 "ask_wallet_from", "type")
         [] OTHER ->
              Handled("TYPE_OP", user_data, "none", "swallowed")


WalletOfData(data) ==
    CASE data = "wal:Bank" -> "Bank" [] data = "wal:Cash" -> "Cash"
WalletData == {"wal:Bank", "wal:Cash"}

ArticleIndex(data) == CASE data = "art:0" -> 0 [] data = "art:1" -> 1
ArticleData == {"art:0", "art:1"}

\* article_selected (pattern: art_back, cancel, page buttons, art:<n>)
article_selected(data) ==
    /\ conv = "ARTICLE"
    /\ CASE data = "cancel" ->
              Handled(END, EmptyUD, "cancelled", "cancel")
         [] data = "art_back" ->
              HandledBack("TYPE_OP", Pop(user_data, "article"), "ask_type")
         [] data \in {"art_page_next", "art_page_prev"} ->
              PageTurned("ARTICLE", "_articles", "_articles_page",
                         data = "art_page_next", "ask_article")
         [] data \in ArticleData ->
              LET articles == GetOr(user_data, "_articles", <<>>)
                  idx == ArticleIndex(data)
              IN  IF idx >= Len(articles)
                  THEN Handled(END, EmptyUD, "choice_error", "article_bad_index")
                  ELSE LET ud == Put(user_data, "article", articles[idx + 1])
                       IN  \E wallets \in get_wallets :
                             IF ~wallets.ok
                             THEN Handled(END, EmptyUD, "fetch_error",
                                          "article_fetch_failed")
                             ELSE Handled("WALLET",
                                          Put(Put(ud, "_wallets", wallets.val),
                                              "_wallets_page", 0),
                                          "ask_wallet", "article")

\* wallet_selected (no pattern: every callback query in WALLET)
wallet_selected(data) ==
    /\ conv = "WALLET"
    /\ CASE data = "cancel" ->
              Handled(END, EmptyUD, "cancelled", "cancel")
         [] data = "wal_back" ->
              HandledBack("ARTICLE", Pop(user_data, "wallet"), "ask_article")
         [] data \in {"wal_page_next", "wal_page_prev"} ->
              PageTurned("WALLET", "_wallets", "_wallets_page",
                         data = "wal_page_next", "ask_wallet")
         [] data \in WalletData ->
              IF WalletOfData(data) \notin SeqToSet(GetOr(user_data, "_wallets", <<>>))
              THEN Handled("WALLET", user_data, "none", "ignored")
              ELSE Handled("AMOUNT", Put(user_data, "wallet", WalletOfData(data)),
                           "ask_amount", "wallet")
         [] OTHER ->
              Handled("WALLET", user_data, "none", "swallowed")

\* amount_entered, were it to drop the counterparty entered before
amount_entered_forgets(text) ==
    /\ conv = "AMOUNT"
    /\ LET amount == parse_amount(text)
       IN  IF amount = <<>> \/ amount[1] <= 0
           THEN Handled("AMOUNT", user_data, "correction", "amount_invalid")
           ELSE Handled("COUNTERPARTY",
                        Pop(Put(user_data, "amount", amount[1]), "counterparty"),
                        "ask_counterparty", "amount")

\* amount_entered
amount_entered(text) ==
    /\ conv = "AMOUNT"
    /\ LET amount == parse_amount(text)
       IN  IF amount = <<>> \/ amount[1] <= 0
           THEN Handled("AMOUNT", user_data, "correction", "amount_invalid")
           ELSE Handled("COUNTERPARTY", Put(user_data, "amount", amount[1]),
                        "ask_counterparty", "amount")

\* counterparty_entered
counterparty_entered(text) ==
    /\ conv = "COUNTERPARTY"
    /\ Handled("PURPOSE", Put(user_data, "counterparty", strip(text)),
               "ask_purpose", "counterparty")

\* counterparty_skip, were it to skip the memo as well
counterparty_skip_to_confirm ==
    /\ conv = "COUNTERPARTY"
    /\ Handled("CONFIRM", Put(Put(user_data, "counterparty", ""), "purpose", ""),
               "confirm", "counterparty")

\* counterparty_skip
counterparty_skip ==
    /\ conv = "COUNTERPARTY"
    /\ Handled("PURPOSE", Put(user_data, "counterparty", ""),
               "ask_purpose", "counterparty")

\* purpose_entered
purpose_entered(text) ==
    /\ conv = "PURPOSE"
    /\ Handled("CONFIRM", Put(user_data, "purpose", strip(text)),
               "confirm", "purpose")

\* purpose_skip
purpose_skip ==
    /\ conv = "PURPOSE"
    /\ Handled("CONFIRM", Put(user_data, "purpose", ""), "confirm", "purpose")

\* amount_back, were it to return to the article list
amount_back_skips ==
    /\ conv = "AMOUNT"
    /\ HandledBack("ARTICLE", user_data, "ask_article")

\* amount_back
amount_back ==
    /\ conv = "AMOUNT"
    /\ HandledBack("WALLET", user_data, "ask_wallet")

\* counterparty_back
counterparty_back ==
    /\ conv = "COUNTERPARTY"
    /\ HandledBack("AMOUNT", user_data, "ask_amount")

\* purpose_back
purpose_back ==
    /\ conv = "PURPOSE"
    /\ HandledBack("COUNTERPARTY", user_data, "ask_counterparty")


(***************************************************************************)
(* The register sheet and its appends (sheet_service).  A row is the cells *)
(* C..I: <<date, amount, wallet, direction, counterparty, memo, article>>; *)
(* a row never written is <<>>.                                            *)
(***************************************************************************)
BlankRow == <<>>

\* _next_row_register: the row after the last one whose date cell is filled
_next_row_register(reg) ==
    LET filled == {i \in 1..Len(reg) : reg[i] # BlankRow}
        lastrow == IF filled = {} THEN 0
                   ELSE CHOOSE i \in filled : \A j \in filled : j <= i
    IN  lastrow + 1

\* ws.update("C{n}:I{n}", [row])
ws_update(reg, n, row) ==
    [i \in 1..(IF n > Len(reg) THEN n ELSE Len(reg)) |->
        IF i = n THEN row ELSE IF i <= Len(reg) THEN reg[i] ELSE BlankRow]

\* _append_row, when nothing else writes the sheet between its read and
\* its write
append_row(reg, row) == ws_update(reg, _next_row_register(reg), row)

Abs(n) == IF n < 0 THEN 0 - n ELSE n

\* append_operation
append_operation(reg, date_str, amount, wallet, business_direction, counterparty, purpose, article) ==
    append_row(reg, <<date_str, amount, wallet, business_direction,
                      counterparty, purpose, article>>)

\* The two rows append_transfer builds; purpose_inflow is <<>> (None) or
\* <<text>>.
transfer_row_out(date_str, amount, wallet_from, purpose, business_direction) ==
    <<date_str, 0 - Abs(amount), wallet_from, business_direction, "",
      strip(purpose), ARTICLE_TRANSFER_OUT>>

\* transfer_row_in, were it to keep the sign of the amount passed
transfer_row_in_signed(date_str, amount, wallet_to, purpose, business_direction, purpose_inflow) ==
    <<date_str, amount, wallet_to, business_direction, "",
      strip(IF purpose_inflow # <<>> THEN purpose_inflow[1] ELSE purpose),
      ARTICLE_TRANSFER_IN>>

transfer_row_in(date_str, amount, wallet_to, purpose, business_direction, purpose_inflow) ==
    <<date_str, Abs(amount), wallet_to, business_direction, "",
      strip(IF purpose_inflow # <<>> THEN purpose_inflow[1] ELSE purpose),
      ARTICLE_TRANSFER_IN>>

\* append_transfer: the registers it can leave.  get_transfer_articles or
\* the first write may raise (nothing written), the second write may raise
\* (the outflow row alone stays), or both rows are written.
append_transfer(reg, date_str, amount, wallet_from, wallet_to, purpose, business_direction, purpose_inflow) ==
    LET row_out == transfer_row_out(date_str, amount, wallet_from, purpose,
                                    business_direction)
        row_in == transfer_row_in(date_str, amount, wallet_to, purpose,
                                  business_direction, purpose_inflow)
        after_out == append_row(reg, row_out)
    IN  { [ok |-> FALSE, reg |-> reg],
          [ok |-> FALSE, reg |-> after_out],
          [ok |-> TRUE, reg |-> append_row(after_out, row_in)] }

(***************************************************************************)
(* Commit of the guided flow.                                              *)
(***************************************************************************)
\* One finished commit handler: conv, user_data, register and reply after it.
Committed(c, ud, reg, r, ev) ==
    /\ conv' = c
    /\ user_data' = ud
    /\ register' = reg
    /\ reply' = r
    /\ last' = ev
    /\ snap' = Aged(last, snap)
    /\ UNCHANGED <<text_edit_waiting, fund_rules, funds, workers, cache, now,
                   served, book, adding, added,
                   rule_run, settings,
                   sheets, access>>
    /\ Bounded

\* The same for the fast path, which also takes the user out of
\* _text_edit_waiting_user_ids and leaves the conversation alone.
CommittedText(ud, reg, r, ev) ==
    /\ user_data' = ud
    /\ register' = reg
    /\ reply' = r
    /\ last' = ev
    /\ snap' = Aged(last, snap)
    /\ text_edit_waiting' = FALSE
    /\ UNCHANGED <<conv, fund_rules, funds, workers, cache, now, served, book,
                   adding, added,
                   rule_run, settings,
                   sheets, access>>
    /\ Bounded

\* _send_balance_after with a prefix: get_balances fails and nothing is
\* shown, or the "saved" message is shown and the wallets are remembered.
send_balance_after(ud) ==
    { [ud |-> ud, reply |-> "none"],
      [ud |-> Put(ud, "_last_balance_wallets", TRUE), reply |-> "saved"] }

\* The append_operation call of _save_income_expense_callback, were it to
\* write the amount of the draft as it stands
save_income_expense_append_as_typed(reg, ud, direction) ==
    append_operation(reg, Get(ud, "date"), Get(ud, "amount"),
        Get(ud, "wallet"), direction, GetOr(ud, "counterparty", ""),
        GetOr(ud, "purpose", ""), Get(ud, "article"))

\* The append_operation call of _save_income_expense_callback: the register
\* it leaves.
save_income_expense_append(reg, ud, direction) ==
    append_operation(reg, Get(ud, "date"),
        IF Get(ud, "type") = "out" THEN 0 - Abs(Get(ud, "amount"))
        ELSE Get(ud, "amount"),
        Get(ud, "wallet"), direction, GetOr(ud, "counterparty", ""),
        GetOr(ud, "purpose", ""), Get(ud, "article"))

\* The append_transfer call of _save_transfer_callback: the registers it can
\* leave.
save_transfer_append(reg, ud, direction) ==
    append_transfer(reg, Get(ud, "date"), Get(ud, "amount"),
        Get(ud, "wallet_from"), Get(ud, "wallet_to"), GetOr(ud, "purpose", ""),
        direction, <<>>)

\* _save_income_expense_callback
save_income_expense_callback ==
    LET ud == user_data
        complete == /\ Has(ud, "amount") /\ Has(ud, "type") /\ Has(ud, "date")
                    /\ Has(ud, "wallet") /\ Has(ud, "article")
    IN  \E direction \in get_direction :
          IF ~direction.ok \/ ~complete
          THEN Committed(END, EmptyUD, register, "write_error", "save_failed")
          ELSE
            \/ Committed(END, EmptyUD, register, "write_error", "save_failed")
            \/ /\ ~Full(register)
               /\ \E b \in send_balance_after(EmptyUD) :
                    Committed(END, b.ud,
                        save_income_expense_append(register, ud, direction.val),
                        b.reply, "save")

\* _save_transfer_callback
save_transfer_callback ==
    LET ud == user_data
        complete == /\ Has(ud, "date") /\ Has(ud, "amount")
                    /\ Has(ud, "wallet_from") /\ Has(ud, "wallet_to")
    IN  \E direction \in get_direction :
          IF ~direction.ok \/ ~complete
          THEN Committed(END, EmptyUD, register, "write_error", "save_failed")
          ELSE
            \E res \in save_transfer_append(register, ud, direction.val) :
              IF ~res.ok
              THEN /\ res.reg # register => ~Full(register)
                   /\ Committed(END, EmptyUD, res.reg, "write_error",
                                IF res.reg = register THEN "save_failed"
                                ELSE "save_partial")
              ELSE /\ ~Full(register)
                   /\ \E b \in send_balance_after(EmptyUD) :
                        Committed(END, b.ud, res.reg, b.reply, "save")

\* confirm_income_expense (pattern: confirm_yes, confirm_no, edit)
confirm_income_expense(data) ==
    /\ conv = "CONFIRM"
    /\ CASE data = "confirm_no" ->
              Handled(END, EmptyUD, "cancelled", "cancel")
         [] data = "edit" ->
              Handled("CONFIRM_EDIT_MENU", user_data, "edit_menu", "edit")
         [] data = "confirm_yes" ->
              save_income_expense_callback


\* confirm_edit_menu (pattern: edit_amount, edit_ct, edit_purpose,
\* edit_article, edit_wallet, edit_back)
confirm_edit_menu(data) ==
    /\ conv = "CONFIRM_EDIT_MENU"
    /\ CASE data = "edit_back" ->
              Handled("CONFIRM", user_data, "confirm", "edit_back")
         [] data = "edit_amount" ->
              Handled("CONFIRM_EDIT_INPUT", Put(user_data, "_edit_field", "amount"),
                      "ask_edit_value", "edit")
         [] data = "edit_ct" ->
              Handled("CONFIRM_EDIT_INPUT",
                      Put(user_data, "_edit_field", "counterparty"),
                      "ask_edit_value", "edit")
         [] data = "edit_purpose" ->
              Handled("CONFIRM_EDIT_INPUT", Put(user_data, "_edit_field", "purpose"),
                      "ask_edit_value", "edit")
         [] data = "edit_article" ->
              LET group == IF GetOr(user_data, "type", "") = "in" THEN "in" ELSE "out"
              IN  \E articles \in get_articles_by_type_sorted_by_usage(group) :
                    IF ~articles.ok
                    THEN Handled("CONFIRM_EDIT_MENU", user_data, "fetch_error",
                                 "edit_fetch_failed")
                    ELSE IF articles.val = <<>>
                    THEN Handled("CONFIRM_EDIT_MENU", user_data, "no_articles",
                                 "edit_no_articles")
                    ELSE Handled("CONFIRM_EDIT_ARTICLE",
                                 Put(Put(user_data, "_articles", articles.val),
                                     "_articles_page", 0),
                                 "ask_edit_article", "edit")
         [] data = "edit_wallet" ->
              \E wallets \in get_wallets :
                IF ~wallets.ok
                THEN Handled("CONFIRM_EDIT_MENU", user_data, "fetch_error",
                             "edit_fetch_failed")
                ELSE IF wallets.val = <<>>
                THEN Handled("CONFIRM_EDIT_MENU", user_data, "no_wallets",
                             "edit_no_wallets")
                ELSE Handled("CONFIRM_EDIT_WALLET",
                             Put(Put(user_data, "_edit_wallets", wallets.val),
                                 "_edit_wallets_page", 0),
                             "ask_edit_wallet", "edit")

EditArticleIndex(data) == CASE data = "edit_art:0" -> 0 [] data = "edit_art:1" -> 1
EditArticleData == {"edit_art:0", "edit_art:1"}

\* confirm_edit_article (pattern: edit_back, cancel, page buttons,
\* edit_art:<n>)
confirm_edit_article(data) ==
    /\ conv = "CONFIRM_EDIT_ARTICLE"
    /\ CASE data = "edit_back" ->
              Handled("CONFIRM_EDIT_MENU", user_data, "edit_menu", "edit_back")
         [] data = "cancel" ->
              Handled(END, EmptyUD, "cancelled", "cancel")
         [] data \in {"edit_art_next", "edit_art_prev"} ->
              PageTurned("CONFIRM_EDIT_ARTICLE", "_articles", "_articles_page",
                         data = "edit_art_next", "ask_edit_article")
         [] data \in EditArticleData ->
              LET articles == GetOr(user_data, "_articles", <<>>)
                  idx == EditArticleIndex(data)
              IN  IF 0 <= idx /\ idx < Len(articles)
                  THEN Handled("CONFIRM",
                               Pop(Pop(Put(user_data, "article", articles[idx + 1]),
                                       "_articles"), "_articles_page"),
                               "confirm", "edited")
                  ELSE Handled("CONFIRM_EDIT_ARTICLE", user_data, "none", "ignored")

EditWalletIndex(data) ==
    CASE data = "edit_wallet:0" -> 0 [] data = "edit_wallet:1" -> 1
EditWalletData == {"edit_wallet:0", "edit_wallet:1"}

\* confirm_edit_wallet (pattern: edit_back, cancel, page buttons,
\* edit_wallet:<n>)
confirm_edit_wallet(data) ==
    /\ conv = "CONFIRM_EDIT_WALLET"
    /\ CASE data = "edit_back" ->
              Handled("CONFIRM_EDIT_MENU", user_data, "edit_menu", "edit_back")
         [] data = "cancel" ->
              Handled(END, EmptyUD, "cancelled", "cancel")
         [] data \in {"edit_wallet_next", "edit_wallet_prev"} ->
              PageTurned("CONFIRM_EDIT_WALLET", "_edit_wallets",
                         "_edit_wallets_page", data = "edit_wallet_next",
                         "ask_edit_wallet")
         [] data \in EditWalletData ->
              LET wallets == GetOr(user_data, "_edit_wallets", <<>>)
                  idx == EditWalletIndex(data)
              IN  IF 0 <= idx /\ idx < Len(wallets)
                  THEN Handled("CONFIRM",
                               Pop(Pop(Put(user_data, "wallet", wallets[idx + 1]),
                                       "_edit_wallets"), "_edit_wallets_page"),
                               "confirm", "edited")
                  ELSE Handled("CONFIRM_EDIT_WALLET", user_data, "none", "ignored")

\* An edit input: the em dash blanks the field.
EditedText(text) == IF strip(text) # DASH THEN strip(text) ELSE ""

\* confirm_edit_input; the user types a text of the kind asked for
confirm_edit_input(text) ==
    /\ conv = "CONFIRM_EDIT_INPUT"
    /\ LET field == GetOr(user_data, "_edit_field", "")
           ud == Pop(user_data, "_edit_field")
           amount == parse_amount(text)
       IN  /\ text \in (IF field = "amount" THEN AmountTexts ELSE FreeTexts)
           /\ CASE field = "" ->
                     Handled("CONFIRM_EDIT_INPUT", ud, "none", "ignored")
                [] field = "amount" ->
                     IF amount # <<>> /\ amount[1] > 0
                     THEN Handled("CONFIRM", Put(ud, "amount", amount[1]),
                                  "confirm", "edited")
                     ELSE Handled("CONFIRM", ud, "confirm", "edit_amount_invalid")
                [] field \in {"counterparty", "purpose"} ->
                     Handled("CONFIRM", Put(ud, field, EditedText(text)),
                             "confirm", "edited")


(***************************************************************************)
(* The transfer branch of the guided flow.                                 *)
(***************************************************************************)
\* transfer_from_selected (no pattern: every callback query in TRANSFER_FROM)
transfer_from_selected(data) ==
    /\ conv = "TRANSFER_FROM"
    /\ CASE data = "cancel" ->
              Handled(END, EmptyUD, "cancelled", "cancel")
         [] data = "tr_from_back" ->
              HandledBack("TYPE_OP", Pop(user_data, "wallet_from"), "ask_type")
         [] data \in {"tr_from_page_next", "tr_from_page_prev"} ->
              PageTurned("TRANSFER_FROM", "_wallets", "_wallets_page",
                         data = "tr_from_page_next", "ask_wallet_from")
         [] data \in WalletData ->
              IF WalletOfData(data) \notin SeqToSet(GetOr(user_data, "_wallets", <<>>))
              THEN Handled("TRANSFER_FROM", user_data, "none", "ignored")
              ELSE LET ud == Put(user_data, "wallet_from", WalletOfData(data))
                   IN  \E all_wallets \in get_wallets :
                         IF ~all_wallets.ok
                         THEN Handled(END, EmptyUD, "fetch_error",
                                      "from_fetch_failed")
                         ELSE LET wallets_to ==
                                    SelectSeq(all_wallets.val,
                                              LAMBDA w : w # WalletOfData(data))
                              IN  Handled("TRANSFER_TO",
                                          Put(Put(ud, "_wallets", wallets_to),
                                              "_wallets_page", 0),
                                          "ask_wallet_to", "wallet_from")
         [] OTHER ->
              Handled("TRANSFER_FROM", user_data, "none", "swallowed")

\* transfer_to_selected (no pattern: every callback query in TRANSFER_TO)
transfer_to_selected(data) ==
    /\ conv = "TRANSFER_TO"
    /\ CASE data = "cancel" ->
              Handled(END, EmptyUD, "cancelled", "cancel")
         [] data = "tr_to_back" ->
              LET ud == Pop(user_data, "wallet_to")
              IN  \E wallets \in get_wallets :
                    IF ~wallets.ok
                    THEN /\ Handled("TRANSFER_TO", ud, "fetch_error",
                                    "back_fetch_failed")
                    ELSE HandledBack("TRANSFER_FROM",
                                     Put(Put(ud, "_wallets", wallets.val),
                                         "_wallets_page", 0),
                                     "ask_wallet_from")
         [] data \in {"tr_to_page_next", "tr_to_page_prev"} ->
              PageTurned("TRANSFER_TO", "_wallets", "_wallets_page",
                         data = "tr_to_page_next", "ask_wallet_to")
         [] data \in WalletData ->
              IF WalletOfData(data) \notin SeqToSet(GetOr(user_data, "_wallets", <<>>))
              THEN Handled("TRANSFER_TO", user_data, "none", "ignored")
              ELSE Handled("TRANSFER_AMOUNT",
                           Put(user_data, "wallet_to", WalletOfData(data)),
                           "ask_amount", "wallet_to")
         [] OTHER ->
              Handled("TRANSFER_TO", user_data, "none", "swallowed")

\* transfer_amount_entered
transfer_amount_entered(text) ==
    /\ conv = "TRANSFER_AMOUNT"
    /\ LET amount == parse_amount(text)
       IN  IF amount = <<>> \/ amount[1] <= 0
           THEN Handled("TRANSFER_AMOUNT", user_data, "correction",
                        "amount_invalid")
           ELSE Handled("TRANSFER_PURPOSE", Put(user_data, "amount", amount[1]),
                        "ask_purpose", "amount")

\* transfer_amount_back
transfer_amount_back ==
    /\ conv = "TRANSFER_AMOUNT"
    /\ HandledBack("TRANSFER_TO", user_data, "ask_wallet_to")

\* transfer_purpose_back
transfer_purpose_back ==
    /\ conv = "TRANSFER_PURPOSE"
    /\ HandledBack("TRANSFER_AMOUNT", user_data, "ask_amount")

\* transfer_purpose_entered
transfer_purpose_entered(text) ==
    /\ conv = "TRANSFER_PURPOSE"
    /\ Handled("TRANSFER_CONFIRM", Put(user_data, "purpose", strip(text)),
               "confirm", "purpose")

\* transfer_purpose_skip
transfer_purpose_skip ==
    /\ conv = "TRANSFER_PURPOSE"
    /\ Handled("TRANSFER_CONFIRM", Put(user_data, "purpose", ""),
               "confirm", "purpose")

\* confirm_transfer (pattern: confirm_yes, confirm_no)
confirm_transfer(data) ==
    /\ conv = "TRANSFER_CONFIRM"
    /\ CASE data = "confirm_no" ->
              Handled(END, EmptyUD, "cancelled", "cancel")
         [] data = "confirm_yes" ->
              save_transfer_callback

\* _confirm_fallback: confirm_yes when the conversation has no handler for
\* it in its state (text_confirm_yes never gets here: the "^text_" handler
\* is registered before it).
confirm_fallback ==
    /\ conv \notin {"TYPE_OP", "WALLET", "TRANSFER_FROM", "TRANSFER_TO",
                    "CONFIRM", "TRANSFER_CONFIRM"}
    /\ Handled(conv, user_data, "session_expired", "confirm_fallback")


(***************************************************************************)
(* The free-text fast path.  A message is the sequence of its words        *)
(* (text.split()); the Russian keywords are written in English.            *)
(***************************************************************************)
TYPE_OUT == {"minus", "outflow", "expense"}
TYPE_IN == {"plus", "inflow", "income"}
TYPE_TRANSFER == {"transfer"}
ONE_WINDOW_FIRST_WORDS == TYPE_OUT \cup TYPE_IN \cup TYPE_TRANSFER

\* str.lower() on the words of the model
lower(w) ==
    CASE w = "Transfer" -> "transfer" [] w = "Minus" -> "minus"
      [] w = "Bank" -> "bank" [] w = "Cash" -> "cash" [] OTHER -> w

\* The words parse_amount finds a digit in; any other word has none.
AmountWords == AmountTexts \cup {"inv2", "5000"}
WordAmount(w) == IF w \in AmountWords THEN parse_amount(w) ELSE <<>>

RECURSIVE Join(_)
Join(ws) ==
    IF ws = <<>> THEN ""
    ELSE IF Len(ws) = 1 THEN ws[1]
    ELSE ws[1] \o " " \o Join(Tail(ws))

\* _is_one_window_message
is_one_window_message(parts) ==
    /\ parts # <<>>
    /\ \/ lower(parts[1]) \in ONE_WINDOW_FIRST_WORDS
       \/ lower(parts[1]) = "-" /\ Len(parts) >= 2
       \/ WordAmount(parts[1]) # <<>> /\ WordAmount(parts[1])[1] > 0

\* match_wallet of _parse_short_form, on words: <<wallet, words after it>>
\* or <<>> when the text does not start with a wallet name.
match_wallet(ws, wallets) ==
    LET hits == {i \in 1..Len(wallets) :
                    ws # <<>> /\ lower(ws[1]) = lower(wallets[i])}
    IN  IF hits = {} THEN <<>>
        ELSE <<wallets[CHOOSE i \in hits : \A j \in hits : i <= j], Tail(ws)>>

\* The words "(...)" of the model and what they enclose.
InParens(w) == CASE w = "(Acme)" -> <<"Acme">> [] OTHER -> <<>>

\* extract_counterparty_purpose of _parse_short_form, on words
extract_counterparty_purpose(ws) ==
    LET ms == {i \in 1..Len(ws) : InParens(ws[i]) # <<>>}
        m == CHOOSE i \in ms : \A j \in ms : i <= j
    IN  IF ms = {} THEN <<"", Join(ws)>>
        ELSE <<InParens(ws[m])[1], Join(SubSeq(ws, m + 1, Len(ws)))>>

\* The dict _parse_short_form returns for a transfer, w1 and w2 the two
\* wallets matched; <<>> (None) without a second wallet.
transfer_data(amount, w1, w2) ==
    IF w2 = <<>> THEN <<>>
    ELSE << [type |-> "transfer", date |-> TODAY, amount |-> amount,
             wallet_from |-> w1[1], wallet_to |-> w2[1], wallet |-> "",
             counterparty |-> "", purpose |-> Join(w2[2])] >>

\* The dict _parse_short_form returns for an income or an expense.
operation_data(op_type, amount, wallet, cp) ==
    << [type |-> op_type, date |-> TODAY, amount |-> amount, wallet |-> wallet,
        wallet_from |-> "", wallet_to |-> "", counterparty |-> cp[1],
        purpose |-> cp[2]] >>

\* _parse_short_form after the type and the amount word are found
parse_rest(op_type, amount, rest, w1, wallets) ==
    IF amount = <<>> \/ amount[1] <= 0 THEN <<>>
    ELSE IF rest = <<>> \/ w1 = <<>> THEN <<>>
    ELSE IF op_type = "transfer"
    THEN transfer_data(amount[1], w1, match_wallet(w1[2], wallets))
    ELSE operation_data(op_type, amount[1], w1[1],
                        extract_counterparty_purpose(w1[2]))

\* The type _parse_short_form reads from the first word ("none": no type)
op_type_of(first) ==
    IF first = "transfer" THEN "transfer"
    ELSE IF first \in TYPE_OUT \/ first = "-" THEN "out"
    ELSE IF first \in TYPE_IN THEN "in"
    ELSE IF WordAmount(first) # <<>> /\ WordAmount(first)[1] > 0 THEN "in"
    ELSE "none"

\* The position of the amount word: after a keyword, or first.
amount_at(first) ==
    IF first \in ONE_WINDOW_FIRST_WORDS \/ first = "-" THEN 2 ELSE 1

\* _parse_short_form: <<>> (None) or <<data>>
parse_short_form(parts, wallets) ==
    IF Len(parts) < 2 \/ op_type_of(lower(parts[1])) = "none" THEN <<>>
    ELSE parse_rest(op_type_of(lower(parts[1])),
                    WordAmount(parts[amount_at(lower(parts[1]))]),
                    SubSeq(parts, amount_at(lower(parts[1])) + 1, Len(parts)),
                    match_wallet(SubSeq(parts, amount_at(lower(parts[1])) + 1,
                                        Len(parts)), wallets),
                    wallets)

\* The messages a user sends to the fast path.
Messages ==
    { <<"2", "Bank">>,
      <<"plus", "1,5", "cash", "(Acme)", "Acme">>,
      <<"Minus", "2", "Bank", "Acme">>,
      <<"-", "1,5", "Cash", "(Acme)">>,
      <<"Transfer", "2", "Bank", "Cash">>,
      <<"transfer", "1,5", "Cash", "Bank", "Acme">>,
      <<"transfer", "2", "Bank">>,
      <<"minus", "abc", "Bank">>,
      <<"2", "Nowhere">>,
      <<"2">> }


\* One handled event of the fast path: the conversation is not touched.
HandledText(ud, w, r, ev) ==
    /\ user_data' = ud
    /\ text_edit_waiting' = w
    /\ reply' = r
    /\ last' = ev
    /\ snap' = Aged(last, snap)
    /\ UNCHANGED <<conv, register, fund_rules, funds, workers, cache, now,
                   served, book, adding, added,
                   rule_run, settings,
                   sheets, access>>
    /\ Bounded

\* The page branch of a list of the fast path.
PageTurnedText(items, page_key, next, r) ==
    LET to == turn_page(next, GetOr(user_data, page_key, 0),
                        Len(GetOr(user_data, items, <<>>)))
    IN  IF to = <<>>
        THEN HandledText(user_data, text_edit_waiting, "none", "page_refused")
        ELSE HandledText(Put(user_data, page_key, to[1]), text_edit_waiting,
                         r, "text_page")

\* The states of the conversation that take a text message themselves.
TextStates ==
    { "DATE", "AMOUNT", "COUNTERPARTY", "PURPOSE", "CONFIRM_EDIT_INPUT",
      "TRANSFER_AMOUNT", "TRANSFER_PURPOSE" }

\* _text_form_should_handle
text_form_should_handle(parts) ==
    text_edit_waiting \/ is_one_window_message(parts)

\* handle_form, edit input branch (a "_waiting_for" with a window to edit);
\* the user types one text of the kind asked for
handle_form_waiting(text) ==
    /\ conv \notin TextStates
    /\ text_form_should_handle(<<text>>)
    /\ Has(user_data, "_waiting_for") /\ Has(user_data, "_conv_message_id")
    /\ LET waiting == Get(user_data, "_waiting_for")
           ud == Pop(user_data, "_waiting_for")
           amount == parse_amount(text)
       IN  /\ text \in (IF waiting = "amount" THEN AmountTexts ELSE FreeTexts)
           /\ CASE waiting = "amount" ->
                     IF amount # <<>> /\ amount[1] > 0
                     THEN HandledText(Put(ud, "amount", amount[1]), FALSE,
                                      "confirm", "text_edited")
                     ELSE HandledText(ud, FALSE, "confirm",
                                      "text_edit_amount_invalid")
                [] waiting \in {"counterparty", "purpose"} ->
                     HandledText(Put(ud, waiting, EditedText(text)), FALSE,
                                 "confirm", "text_edited")

\* The draft handle_form puts in user_data from the parsed message.
form_draft(ud, data) ==
    [k \in Keys |->
        CASE k = "_from_text" -> <<TRUE>>
          [] k = "date" -> <<data.date>>
          [] k = "type" -> <<data.type>>
          [] k = "amount" -> <<data.amount>>
          [] k = "counterparty" -> <<data.counterparty>>
          [] k = "purpose" -> <<data.purpose>>
          [] k = "wallet_from" /\ data.type = "transfer" -> <<data.wallet_from>>
          [] k = "wallet_to" /\ data.type = "transfer" -> <<data.wallet_to>>
          [] k = "wallet" /\ data.type # "transfer" -> <<data.wallet>>
          [] OTHER -> ud[k]]

\* handle_form after the parse: the confirmation of a transfer, or the
\* article list of an income or an expense
form_parsed(ud) ==
    IF Get(ud, "type") = "transfer"
    THEN HandledText(WithWindow(ud), text_edit_waiting, "confirm", "form")
    ELSE \E articles \in get_articles_by_type_sorted_by_usage(Get(ud, "type")) :
           IF ~articles.ok
           THEN HandledText(ud, text_edit_waiting, "none", "form_fetch_failed")
           ELSE IF articles.val = <<>>
           THEN HandledText(Pop(ud, "_from_text"), text_edit_waiting,
                            "no_articles", "form_no_articles")
           ELSE HandledText(
                    WithWindow(Put(Put(ud, "_text_articles", articles.val),
                                   "_text_articles_page", 0)),
                    text_edit_waiting, "ask_article", "form")

\* handle_form, a message in the format of an operation, whatever the state
\* of the conversation that let it through
handle_form_message(parts) ==
    /\ conv \notin TextStates
    /\ text_form_should_handle(parts)
    /\ ~(Has(user_data, "_waiting_for") /\ Has(user_data, "_conv_message_id"))
    /\ IF ~is_one_window_message(parts)
       THEN HandledText(Pop(user_data, "_waiting_for"), text_edit_waiting,
                        "none", "ignored")
       ELSE \E wallets \in get_wallets :
              IF ~wallets.ok
              THEN HandledText(Pop(user_data, "_waiting_for"), text_edit_waiting,
                               "none", "form_fetch_failed")
              ELSE \E parsed \in {parse_short_form(parts, wallets.val)} :
                     IF parsed = <<>>
                     THEN HandledText(Pop(user_data, "_waiting_for"),
                                      text_edit_waiting, "parse_error",
                                      "form_unparsed")
                     ELSE form_parsed(form_draft(Pop(user_data, "_waiting_for"),
                                                 parsed[1]))

\* handle_form for a user who sends a message between two operations
handle_form(parts) ==
    /\ NewOperation /\ conv = END
    /\ handle_form_message(parts)

PopAll(ud, ks) == [k \in Keys |-> IF k \in ks THEN Absent ELSE ud[k]]

TextArticleIndex(data) ==
    CASE data \in {"text_art:0", "text_edit_art:0"} -> 0
      [] data \in {"text_art:1", "text_edit_art:1"} -> 1

\* The append_operation call of the text_confirm_yes branch, were it to
\* write the amount of an expense as typed
text_confirm_operation_append_unsigned(reg, ud, direction) ==
    append_operation(reg, Get(ud, "date"), GetOr(ud, "amount", 0),
        Get(ud, "wallet"), direction, GetOr(ud, "counterparty", ""),
        GetOr(ud, "purpose", ""), Get(ud, "article"))

\* The append_operation call of the text_confirm_yes branch: the register
\* it leaves.
text_confirm_operation_append(reg, ud, direction) ==
    append_operation(reg, Get(ud, "date"),
        IF GetOr(ud, "type", "") = "out" THEN 0 - Abs(GetOr(ud, "amount", 0))
        ELSE GetOr(ud, "amount", 0),
        Get(ud, "wallet"), direction, GetOr(ud, "counterparty", ""),
        GetOr(ud, "purpose", ""), Get(ud, "article"))

\* The append_transfer call of the text_confirm_yes branch: the registers it
\* can leave.
text_confirm_transfer_append(reg, ud, direction) ==
    append_transfer(reg, Get(ud, "date"), Get(ud, "amount"),
        Get(ud, "wallet_from"), Get(ud, "wallet_to"), GetOr(ud, "purpose", ""),
        direction, <<>>)

\* handle_text_form_callback, the text_confirm_yes branch
text_confirm_yes ==
    LET ud == user_data
    IN  \E direction \in get_direction :
          IF ~direction.ok
          THEN CommittedText(EmptyUD, register, "error", "text_save_failed")
          ELSE IF GetOr(ud, "type", "") = "transfer"
          THEN
            IF ~(Has(ud, "date") /\ Has(ud, "amount") /\ Has(ud, "wallet_from")
                 /\ Has(ud, "wallet_to"))
            THEN CommittedText(EmptyUD, register, "write_error",
                               "text_save_failed")
            ELSE
              \E res \in text_confirm_transfer_append(register, ud,
                                                       direction.val) :
                IF ~res.ok
                THEN /\ res.reg # register => ~Full(register)
                     /\ CommittedText(EmptyUD, res.reg, "write_error",
                                      IF res.reg = register
                                      THEN "text_save_failed"
                                      ELSE "text_save_partial")
                ELSE /\ ~Full(register)
                     /\ \E b \in send_balance_after(EmptyUD) :
                          CommittedText(b.ud, res.reg, b.reply, "text_save")
          ELSE
            IF ~Has(ud, "article")
            THEN CommittedText(EmptyUD, register, "no_article",
                               "text_save_failed")
            ELSE IF ~(Has(ud, "date") /\ Has(ud, "wallet"))
            THEN CommittedText(EmptyUD, register, "write_error",
                               "text_save_failed")
            ELSE
              \/ CommittedText(EmptyUD, register, "write_error",
                               "text_save_failed")
              \/ /\ ~Full(register)
                 /\ \E b \in send_balance_after(EmptyUD) :
                      CommittedText(b.ud,
                          text_confirm_operation_append(register, ud,
                                                        direction.val),
                          b.reply, "text_save")

\* handle_text_form_callback (pattern "^text_", registered before the
\* conversation)
handle_text_form_callback(data) ==
    IF ~Has(user_data, "_from_text")
    THEN HandledText(user_data, text_edit_waiting, "session_expired",
                     "text_expired")
    ELSE
      CASE data = "text_confirm_no" ->
             HandledText(PopAll(user_data, {"_from_text", "_text_articles",
                             "_text_articles_page", "_conv_message_id"}),
                         FALSE, "cancelled", "text_cancel")
        [] data = "text_art_back" ->
             HandledText(PopAll(user_data, {"_from_text", "_text_articles",
                             "_text_articles_page", "_conv_message_id"}),
                         text_edit_waiting, "cancelled", "text_cancel")
        [] data \in {"text_art_next", "text_art_prev"} ->
             PageTurnedText("_text_articles", "_text_articles_page",
                            data = "text_art_next", "ask_article")
        [] data = "text_confirm_yes" ->
             text_confirm_yes
        [] data \in {"text_art:0", "text_art:1"} ->
             LET articles == GetOr(user_data, "_text_articles", <<>>)
                 idx == TextArticleIndex(data)
             IN  IF idx >= Len(articles)
                 THEN HandledText(Pop(user_data, "_from_text"), text_edit_waiting,
                                  "choice_error", "text_bad_index")
                 ELSE HandledText(
                          PopAll(Put(user_data, "article", articles[idx + 1]),
                                 {"_text_articles", "_text_articles_page"}),
                          text_edit_waiting, "confirm", "text_article")
        [] data \in {"text_edit", "text_edit_art_back"} ->
             HandledText(user_data, text_edit_waiting, "edit_menu", "text_edit")
        [] data = "text_edit_amount" ->
             HandledText(Put(user_data, "_waiting_for", "amount"), TRUE,
                         "ask_edit_value", "text_edit")
        [] data = "text_edit_ct" ->
             HandledText(Put(user_data, "_waiting_for", "counterparty"), TRUE,
                         "ask_edit_value", "text_edit")
        [] data = "text_edit_purpose" ->
             HandledText(Put(user_data, "_waiting_for", "purpose"), TRUE,
                         "ask_edit_value", "text_edit")
        [] data = "text_edit_article" ->
             LET group == IF GetOr(user_data, "type", "") = "in" THEN "in" ELSE "out"
             IN  \E articles \in get_articles_by_type_sorted_by_usage(group) :
                   IF ~articles.ok
                   THEN HandledText(user_data, text_edit_waiting, "fetch_error",
                                    "text_edit_fetch_failed")
                   ELSE IF articles.val = <<>>
                   THEN HandledText(user_data, text_edit_waiting, "no_articles",
                                    "text_edit_no_articles")
                   ELSE HandledText(
                            Put(Put(user_data, "_text_edit_articles", articles.val),
                                "_text_edit_articles_page", 0),
                            text_edit_waiting, "ask_edit_article", "text_edit")
        [] data \in {"text_edit_art:0", "text_edit_art:1"} ->
             LET articles == GetOr(user_data, "_text_edit_articles", <<>>)
                 idx == TextArticleIndex(data)
             IN  IF idx >= Len(articles)
                 THEN HandledText(user_data, text_edit_waiting, "choice_error",
                                  "text_bad_index")
                 ELSE HandledText(
                          PopAll(Put(user_data, "article", articles[idx + 1]),
                                 {"_text_edit_articles",
                                  "_text_edit_articles_page"}),
                          text_edit_waiting, "confirm", "text_edited")
        [] data \in {"text_edit_art_next", "text_edit_art_prev"} ->
             PageTurnedText("_text_edit_articles", "_text_edit_articles_page",
                            data = "text_edit_art_next", "ask_edit_article")
        [] data = "text_edit_back" ->
             HandledText(user_data, text_edit_waiting, "confirm", "text_edit")

TextData ==
    { "text_confirm_no", "text_art_back", "text_confirm_yes", "text_art:0",
      "text_art:1", "text_edit", "text_edit_art_back", "text_edit_amount",
      "text_edit_ct", "text_edit_purpose", "text_edit_article",
      "text_edit_art:0", "text_edit_art:1", "text_edit_back" }


(***************************************************************************)
(* Spec: one user's dialog with the bot.                                   *)
(***************************************************************************)
\* The destination wallets of the fund rules of the model, and the amount
\* the passes have transferred to each before any pass.
FundWallets == {"Fund A", "Fund B", "Fund C"}
NoSent == [w \in FundWallets |-> 0]

\* funds before any fund distribution pass; workers with no append in flight.
NoFunds ==
    [ran |-> FALSE, clean |-> TRUE, reads |-> TRUE, wrote |-> 0,
     touched |-> FALSE, call |-> <<>>, base |-> 0, income |-> 0,
     sent |-> NoSent]
NoWorkers == <<>>

\* The keys of _cache the model follows; _cache after __init__; served
\* before any read.
CacheKeys == {"balances", "article_usage"}
NoCache == [k \in CacheKeys |-> <<>>]
\* The spreadsheet, the flows and the last call without any wallet slot
\* followed.
NoBook == <<>>
NoAdding == <<>>
NoAdded == <<>>
NoRuleRun == <<>>
NoSettings == <<>>
\* The Telegram user ids of the users of the bot: user 1 is the user of the
\* dialog.
Users == {1, 2}
\* No allow-list (TELEGRAM_ALLOWED_IDS is not set), and the user of the dialog.
NoAccess == [allowed_ids |-> {}, user |-> 1]
NoRead ==
    [key |-> "none", ok |-> FALSE, hit |-> FALSE, error |-> "none",
     attempts |-> 0, slept |-> 0]

Init ==
    /\ conv = END
    /\ user_data = EmptyUD
    /\ text_edit_waiting = FALSE
    /\ register = <<>>
    /\ reply = "none"
    /\ last = "none"
    /\ snap = NoSnap
    /\ fund_rules = <<>>
    /\ funds = NoFunds
    /\ workers = NoWorkers
    /\ cache = NoCache
    /\ now = 0
    /\ served = NoRead
    /\ book = NoBook
    /\ adding = NoAdding
    /\ added = NoAdded
    /\ rule_run = NoRuleRun
    /\ settings = NoSettings
    /\ sheets = Directories
    /\ access = NoAccess

\* The callback data a user can send to the handlers that take any data:
\* the buttons of their keyboard, and the Confirm button of an older window.
TypeData == {"cancel", "conv_back", "type_in", "type_out", "type_tr", "confirm_yes"}
WalletStateData == {"cancel", "wal_back", "confirm_yes"} \cup WalletData
TransferFromData == {"cancel", "tr_from_back", "confirm_yes"} \cup WalletData
TransferToData == {"cancel", "tr_to_back", "confirm_yes"} \cup WalletData
ArticleStateData == {"cancel", "art_back"} \cup ArticleData
EditMenuData ==
    { "edit_back", "edit_amount", "edit_ct", "edit_purpose", "edit_article",
      "edit_wallet" }

\* The fields the states before a state have put in the draft.
Entered(c) ==
    CASE c \in {END, "DATE"} -> {}
      [] c = "TYPE_OP" -> {"date"}
      [] c \in {"ARTICLE", "TRANSFER_FROM"} -> {"date", "type"}
      [] c = "WALLET" -> {"date", "type", "article"}
      [] c = "AMOUNT" -> {"date", "type", "article", "wallet"}
      [] c = "COUNTERPARTY" -> {"date", "type", "article", "wallet", "amount"}
      [] c = "PURPOSE" ->
           {"date", "type", "article", "wallet", "amount", "counterparty"}
      [] c \in {"CONFIRM", "CONFIRM_EDIT_MENU", "CONFIRM_EDIT_ARTICLE",
                "CONFIRM_EDIT_WALLET", "CONFIRM_EDIT_INPUT"} ->
           {"date", "type", "article", "wallet", "amount", "counterparty",
            "purpose"}
      [] c = "TRANSFER_TO" -> {"date", "type", "wallet_from"}
      [] c = "TRANSFER_AMOUNT" -> {"date", "type", "wallet_from", "wallet_to"}
      [] c = "TRANSFER_PURPOSE" ->
           {"date", "type", "wallet_from", "wallet_to", "amount"}
      [] c = "TRANSFER_CONFIRM" ->
           {"date", "type", "wallet_from", "wallet_to", "amount", "purpose"}

\* The user goes on with an operation (answers, picks, edits, goes back)
\* only while the draft their window shows is intact; when it is not (after
\* /cancel emptied it) they press Confirm or a cancel button, or begin a new
\* operation.
Intact == \A k \in Entered(conv) : Has(user_data, k)
GoesOn(data) == data \in {"cancel", "confirm_yes", "confirm_no"} \/ Intact

\* The guided flow.
NextGuided ==
    \/ start_step
    \/ add_operation_from_button
    \/ date_today
    \/ \E d \in {YESTERDAY} : date_preset(d)
    \/ \E text \in DateTexts : date_text(text)
    \/ \E data \in TypeData : GoesOn(data) /\ type_selected(data)
    \/ \E data \in ArticleStateData : GoesOn(data) /\ article_selected(data)
    \/ \E data \in WalletStateData : GoesOn(data) /\ wallet_selected(data)
    \/ \E text \in AmountTexts : Intact /\ amount_entered(text)
    \/ \E text \in FreeTexts : Intact /\ counterparty_entered(text)
    \/ Intact /\ counterparty_skip
    \/ \E text \in FreeTexts : Intact /\ purpose_entered(text)
    \/ Intact /\ purpose_skip
    \/ Intact /\ amount_back
    \/ Intact /\ counterparty_back
    \/ Intact /\ purpose_back
    \/ \E data \in {"confirm_yes", "confirm_no", "edit"} :
         GoesOn(data) /\ confirm_income_expense(data)
    \/ \E data \in EditMenuData : Intact /\ confirm_edit_menu(data)
    \/ \E data \in {"edit_back", "cancel"} \cup EditArticleData :
         GoesOn(data) /\ confirm_edit_article(data)
    \/ \E data \in {"edit_back", "cancel"} \cup EditWalletData :
         GoesOn(data) /\ confirm_edit_wallet(data)
    \/ \E text \in AmountTexts \cup FreeTexts : Intact /\ confirm_edit_input(text)

\* The transfer branch, cancel, and the Confirm fallback.
NextTransfer ==
    \/ \E data \in TransferFromData : GoesOn(data) /\ transfer_from_selected(data)
    \/ \E data \in TransferToData : GoesOn(data) /\ transfer_to_selected(data)
    \/ \E text \in AmountTexts : Intact /\ transfer_amount_entered(text)
    \/ Intact /\ transfer_amount_back
    \/ Intact /\ transfer_purpose_back
    \/ \E text \in FreeTexts : Intact /\ transfer_purpose_entered(text)
    \/ Intact /\ transfer_purpose_skip
    \/ \E data \in {"confirm_yes", "confirm_no"} : confirm_transfer(data)
    \/ cancel_callback
    \/ cancel_cmd
    \/ confirm_fallback

\* The fast path.
NextText ==
    \/ \E parts \in Messages \cup {<<"Acme">>} : handle_form(parts)
    \/ \E text \in AmountTexts \cup FreeTexts : handle_form_waiting(text)
    \/ \E data \in TextData : handle_text_form_callback(data)

Next == NextGuided \/ NextTransfer \/ NextText

Spec == Init /\ [][Next]_vars

(***************************************************************************)
(* SpecFunds: the register under append_operation, append_transfer and the *)
(* fund distribution pass (_run_funds_logic), one call at a time.          *)
(***************************************************************************)
\* The memo of the outflow row of a fund transfer and the memo of its inflow
\* row (the text with today's date in it), written in English.
FUND_PURPOSE == "Fund Deduction"
FUND_PURPOSE_INFLOW == "Fund inflow for 02.11.2026"

\* A read that looks for marker_out alone.
has_marker_out(purpose) == purpose = "Fund deduction"

\* `marker_out in purpose or marker_in in purpose` of
\* get_fund_transfers_done_today: marker_in is the head of the inflow memo;
\* marker_out is written with a small letter where FUND_PURPOSE has a
\* capital one, and is in no memo of the model.
has_fund_marker(purpose) == purpose = FUND_PURPOSE_INFLOW

RECURSIVE SumAmounts(_, _)
SumAmounts(reg, rows) ==
    IF rows = {} THEN 0
    ELSE LET i == CHOOSE j \in rows : TRUE
         IN  reg[i][2] + SumAmounts(reg, rows \ {i})

\* get_daily_income; article_in_transfer is <<>> (None: get_transfer_articles
\* raised) or <<name>>.  The sheet shows a number of the model as a text
\* _parse_number reads back as that number.
get_daily_income(reg, date_str, article_in_transfer) ==
    SumAmounts(reg,
        {i \in 1..Len(reg) :
            /\ reg[i] # BlankRow
            /\ reg[i][1] = date_str
            /\ reg[i][2] > 0
            /\ ~(article_in_transfer # <<>> /\ reg[i][7] = article_in_transfer[1])})

\* The wallets a row of the model can name.
AllWallets == SeqToSet(WALLETS) \cup FundWallets

\* get_fund_transfers_done_today: destination wallet -> amount received
\* (0 for a wallet that is no key of the dict)
get_fund_transfers_done_today(reg, date_str) ==
    [w \in AllWallets |->
        SumAmounts(reg,
            {i \in 1..Len(reg) :
                /\ reg[i] # BlankRow
                /\ reg[i][1] = date_str
                /\ has_fund_marker(reg[i][6])
                /\ reg[i][2] > 0
                /\ reg[i][3] = w})]

RECURSIVE SumValues(_, _)
SumValues(d, ks) ==
    IF ks = {} THEN 0
    ELSE LET k == CHOOSE j \in ks : TRUE
         IN  d[k] + SumValues(d, ks \ {k})

\* round(num / den, 2) in kopecks, num already in kopecks: the nearest
\* kopeck, a tie to the even one.
Round(num, den) ==
    LET q == num \div den
        r == num % den
    IN  IF 2 * r < den THEN q
        ELSE IF 2 * r > den THEN q + 1
        ELSE IF q % 2 = 0 THEN q ELSE q + 1

\* sum of the percents of the rules with a source and a destination
RECURSIVE total_percent(_)
total_percent(rules) ==
    IF rules = <<>> THEN 0
    ELSE (IF rules[1].source # "" /\ rules[1].destination # ""
          THEN rules[1].percent ELSE 0) + total_percent(Tail(rules))

\* The day's income taken whole, whatever was transferred before.
new_revenue_whole(daily_income, total_already_today, percent_sum) ==
    daily_income

\* new_revenue of _run_funds_logic, in kopecks
new_revenue(daily_income, total_already_today, percent_sum) ==
    IF percent_sum > 0 /\ total_already_today > 0
    THEN daily_income - Round(total_already_today * 100, percent_sum)
    ELSE daily_income

\* to_transfer of _run_funds_logic for a revenue in kopecks, raw >= 0:
\* int(raw + 0.5), whole currency units
to_transfer(revenue, percent) == (revenue * percent + 5000) \div 10000

\* The loop over the rules: the registers it can leave, with the number of
\* transfers that raised.
RECURSIVE run_rules(_, _, _, _)
run_rules(rules, reg, revenue, direction) ==
    IF rules = <<>>
    THEN {[reg |-> reg, failed |-> 0, made |-> 0, sent |-> NoSent]}
    ELSE LET r == rules[1]
             amount == to_transfer(revenue, r.percent)
         IN  IF r.source = "" \/ r.destination = "" \/ r.percent <= 0
                \/ amount <= 0
             THEN run_rules(Tail(rules), reg, revenue, direction)
             ELSE UNION
                  { { [reg |-> t.reg,
                       failed |-> t.failed + (IF res.ok THEN 0 ELSE 1),
                       made |-> t.made + 1,
                       sent |-> IF res.ok
                                THEN [t.sent EXCEPT ![r.destination] =
                                                      @ + amount * 100]
                                ELSE t.sent] :
                      t \in run_rules(Tail(rules), res.reg, revenue, direction) } :
                    res \in append_transfer(reg, TODAY, amount * 100, r.source,
                                r.destination, FUND_PURPOSE, direction,
                                <<FUND_PURPOSE_INFLOW>>) }

\* The rows of the register that no fund distribution pass has written.
UserRows(reg) ==
    {i \in 1..Len(reg) :
        reg[i] # BlankRow /\ reg[i][6] # FUND_PURPOSE
        /\ reg[i][3] \notin FundWallets}

\* invalidate_balances_cache
invalidate_balances_cache(c) ==
    [c EXCEPT !["balances"] = <<>>, !["article_usage"] = <<>>]

\* One finished call of SpecFunds that leaves the cache as c, and one that
\* leaves it alone.
FundsHandledCache(reg, r, ev, f, c) ==
    /\ Len(reg) <= MaxFundRows
    /\ Cardinality(UserRows(reg)) <= MaxUserRows
    /\ register' = reg
    /\ reply' = r
    /\ last' = ev
    /\ funds' = f
    /\ cache' = c
    /\ UNCHANGED <<conv, user_data, text_edit_waiting, snap, fund_rules,
                   workers, now, served, book, adding, added,
                   rule_run, settings,
                   sheets, access>>
FundsHandled(reg, r, ev, f) == FundsHandledCache(reg, r, ev, f, cache)

\* funds after a pass: whether every read of it succeeded, whether every
\* read and write did, and the rows it wrote; Based adds the new_revenue the
\* pass computed (0 for a pass that returned before computing one).
Passed(reads, writes, reg) ==
    [ran |-> TRUE, clean |-> reads /\ writes, reads |-> reads,
     wrote |-> Len(reg) - Len(register), touched |-> FALSE, call |-> <<>>,
     base |-> 0, income |-> 0, sent |-> funds.sent]
Based(reads, writes, reg, revenue) ==
    [Passed(reads, writes, reg) EXCEPT !.base = revenue]
\* funds after a pass that read daily_income as the day's income
Income(f, daily_income) == [f EXCEPT !.income = daily_income]
\* funds after a pass whose loop transferred sent[w] to each fund wallet w
Sent(f, sent) == [f EXCEPT !.sent = [w \in FundWallets |-> @[w] + sent[w]]]

\* _run_funds_logic once the day's income and the transfers done are read
distribute(daily_income, already, direction, reads) ==
    IF fund_rules = <<>>
    THEN FundsHandled(register, "no_rules", "funds",
                      Income(Passed(reads, TRUE, register), daily_income))
    ELSE IF new_revenue(daily_income, already, total_percent(fund_rules)) <= 0
    THEN FundsHandled(register, "already_done", "funds",
                      Income(Based(reads, TRUE, register,
                                   new_revenue(daily_income, already,
                                               total_percent(fund_rules))),
                             daily_income))
    ELSE \E t \in run_rules(fund_rules, register,
                     new_revenue(daily_income, already,
                                 total_percent(fund_rules)),
                     direction) :
           FundsHandledCache(t.reg,
               IF t.made = 0 THEN "not_performed" ELSE "distributed",
               "funds",
               Sent(Income(Based(reads, t.failed = 0, t.reg,
                                 new_revenue(daily_income, already,
                                             total_percent(fund_rules))),
                           daily_income), t.sent),
               invalidate_balances_cache(cache))

\* funds_cmd and funds_button_callback: _run_funds_logic, or the error its
\* read of the day's income raised
run_funds_logic ==
    \/ FundsHandled(register, "error", "funds_failed",
                    Passed(FALSE, TRUE, register))
    \/ \E article_in \in {<<>>, <<ARTICLE_TRANSFER_IN>>},
          done \in {Failed,
                    Fetched(get_fund_transfers_done_today(register, TODAY))},
          direction \in get_direction :
         IF get_daily_income(register, TODAY, article_in) <= 0
         THEN FundsHandled(register, "no_income", "funds",
                           Income(Passed(article_in # <<>>, TRUE, register),
                                  get_daily_income(register, TODAY,
                                                   article_in)))
         ELSE distribute(get_daily_income(register, TODAY, article_in),
                         IF done.ok THEN SumValues(done.val, AllWallets) ELSE 0,
                         IF direction.ok THEN direction.val ELSE "",
                         article_in # <<>> /\ done.ok /\ direction.ok)

\* append_operation called for an income or an expense of a user
operation_call(date_str, amount) ==
    \/ FundsHandled(register, "write_error", "operation_failed",
                    [funds EXCEPT !.call = <<>>])
    \/ FundsHandled(append_operation(register, date_str, amount, WALLETS[1],
                                     DIRECTION, "", "",
                                     IF amount < 0 THEN ARTICLES_OUT[1]
                                     ELSE ARTICLES_IN[1]),
                    "saved", "operation",
                    [funds EXCEPT !.touched = TRUE, !.call = <<>>])

\* append_transfer called with the arguments of c
transfer_call(c) ==
    \E res \in append_transfer(register, c.date_str, c.amount, c.wallet_from,
                   c.wallet_to, c.purpose, c.business_direction,
                   c.purpose_inflow) :
      FundsHandled(res.reg, IF res.ok THEN "saved" ELSE "write_error",
                   IF res.ok THEN "transfer" ELSE "transfer_failed",
                   [funds EXCEPT !.touched = TRUE, !.call = c])

\* DEFAULT_FUND_RULES, and the rule lists a fund_rules.json of the model
\* holds; the source wallet is the first wallet of the sheet.
DEFAULT_FUND_RULES ==
    << [source |-> "Bank", destination |-> "Fund A", percent |-> 10],
       [source |-> "Bank", destination |-> "Fund B", percent |-> 10],
       [source |-> "Bank", destination |-> "Fund C", percent |-> 5] >>
RuleLists ==
    { DEFAULT_FUND_RULES,
      << [source |-> "Bank", destination |-> "Fund A", percent |-> 10],
         [source |-> "Bank", destination |-> "Fund B", percent |-> 70] >>,
      << [source |-> "", destination |-> "Fund A", percent |-> 50],
         [source |-> "Bank", destination |-> "Fund B", percent |-> 0],
         [source |-> "Bank", destination |-> "Fund C", percent |-> 50] >>,
      <<>> }

\* The amounts of the operations of SpecFunds, in kopecks, and the calls of
\* append_transfer.
OperationAmounts == {0 - 100} \cup {k * 100 : k \in 1..MaxInflow}
TransferCalls ==
    [date_str : {TODAY}, amount : {0 - 100}, wallet_from : {"Bank"},
     wallet_to : {"Cash"}, purpose : {" Acme "},
     business_direction : {DIRECTION},
     purpose_inflow : {<<>>, <<FUND_PURPOSE_INFLOW>>}]

InitFunds ==
    /\ conv = END
    /\ user_data = EmptyUD
    /\ text_edit_waiting = FALSE
    /\ register = <<>>
    /\ reply = "none"
    /\ last = "none"
    /\ snap = NoSnap
    /\ fund_rules \in RuleLists
    /\ funds = NoFunds
    /\ workers = NoWorkers
    /\ cache = NoCache
    /\ now = 0
    /\ served = NoRead
    /\ book = NoBook
    /\ adding = NoAdding
    /\ added = NoAdded
    /\ rule_run = NoRuleRun
    /\ settings = NoSettings
    /\ sheets = Directories
    /\ access = NoAccess

NextFunds ==
    \/ run_funds_logic
    \/ \E amount \in OperationAmounts : operation_call(TODAY, amount)
    \/ operation_call(YESTERDAY, 100)
    \/ \E c \in TransferCalls : transfer_call(c)

SpecFunds == InitFunds /\ [][NextFunds]_vars

(***************************************************************************)
(* SpecAppend: two appends in flight.  An append_operation is one          *)
(* _append_row, an append_transfer two; each _append_row reads the date    *)
(* column for the next free row and then writes that row, and the other    *)
(* append runs between the two.                                            *)
(***************************************************************************)
Workers == {1, 2}
Idle == [pc |-> "idle", rows |-> <<>>, next_row |-> 0]

\* The rows append_operation and append_transfer hand to _append_row, for
\* the calls of the model.
AppendCalls ==
    { << <<TODAY, 100, "Bank", DIRECTION, "", "", ARTICLES_IN[1]>> >>,
      << <<TODAY, 0 - 200, "Cash", DIRECTION, "", "", ARTICLES_OUT[1]>> >>,
      << transfer_row_out(TODAY, 100, "Bank", "", DIRECTION),
         transfer_row_in(TODAY, 100, "Cash", "", DIRECTION, <<>>) >> }

\* The rows the appends in flight have still to write.
RECURSIVE Pending(_, _)
Pending(ws, S) ==
    IF S = {} THEN 0
    ELSE LET w == CHOOSE v \in S : TRUE
         IN  Len(ws[w].rows) + Pending(ws, S \ {w})

\* One step of an append.
AppendStep(reg, ws, ev) ==
    /\ register' = reg
    /\ workers' = ws
    /\ last' = ev
    /\ UNCHANGED <<conv, user_data, text_edit_waiting, reply, snap, fund_rules,
                   funds, cache, now, served, book, adding, added,
                   rule_run, settings,
                   sheets, access>>

\* append_operation or append_transfer is called: its rows are built
append_call(w, rows) ==
    /\ workers[w].pc = "idle"
    /\ Len(register) + Pending(workers, Workers) + Len(rows) <= MaxAppendRows
    /\ AppendStep(register,
                  [workers EXCEPT ![w] = [pc |-> "read", rows |-> rows,
                                          next_row |-> 0]],
                  "append_call")

\* _append_row: next_row = self._next_row_register()
append_read(w) ==
    /\ workers[w].pc = "read"
    /\ AppendStep(register,
                  [workers EXCEPT ![w].pc = "write",
                                  ![w].next_row = _next_row_register(register)],
                  "append_read")

\* _append_row: ws.update(range_str, [row]); the next _append_row of the
\* call follows
append_write(w) ==
    /\ workers[w].pc = "write"
    /\ AppendStep(ws_update(register, workers[w].next_row, Head(workers[w].rows)),
                  [workers EXCEPT ![w] =
                      IF Len(workers[w].rows) = 1 THEN Idle
                      ELSE [pc |-> "read", rows |-> Tail(workers[w].rows),
                            next_row |-> 0]],
                  "append_write")

\* the read or the write raises: the call ends with its rows unwritten
append_raise(w) ==
    /\ workers[w].pc \in {"read", "write"}
    /\ AppendStep(register, [workers EXCEPT ![w] = Idle], "append_raise")

InitAppend ==
    /\ conv = END
    /\ user_data = EmptyUD
    /\ text_edit_waiting = FALSE
    /\ register = <<>>
    /\ reply = "none"
    /\ last = "none"
    /\ snap = NoSnap
    /\ fund_rules = <<>>
    /\ funds = NoFunds
    /\ workers = [w \in Workers |-> Idle]
    /\ cache = NoCache
    /\ now = 0
    /\ served = NoRead
    /\ book = NoBook
    /\ adding = NoAdding
    /\ added = NoAdded
    /\ rule_run = NoRuleRun
    /\ settings = NoSettings
    /\ sheets = Directories
    /\ access = NoAccess

NextAppend ==
    \/ \E w \in Workers, rows \in AppendCalls : append_call(w, rows)
    \/ \E w \in Workers : append_read(w)
    \/ \E w \in Workers : append_write(w)
    \/ \E w \in Workers : append_raise(w)

SpecAppend == InitAppend /\ [][NextAppend]_vars

(***************************************************************************)
(* SpecCache: the reads of the ledger through DDSSheetService._cache, the  *)
(* clock, and the writes that invalidate the cache.                        *)
(***************************************************************************)
CACHE_TTL == 300
SHEETS_FETCH_RETRIES == 3
SHEETS_FETCH_RETRY_DELAY == 2

\* What one call of fetch_fn does: it returns, it raises a ConnectionError,
\* OSError or TimeoutError, or it raises another exception.
Outcomes == {"ok", "transient", "other"}
OutcomeLists == [1..SHEETS_FETCH_RETRIES -> Outcomes]
\* Every call returns, or every call raises an exception that is not retried.
PlainOutcomes ==
    { [i \in 1..SHEETS_FETCH_RETRIES |-> o] : o \in {"ok", "other"} }

\* _retry_sheets_fetch from the attempt with index `attempt` on, `slept`
\* seconds of time.sleep behind it: whether it returns, the exception it
\* raises, the calls of fetch_fn made and the seconds slept.
RECURSIVE retry_sheets_fetch(_, _, _, _)
retry_sheets_fetch(outcomes, max_attempts, attempt, slept) ==
    IF attempt >= max_attempts
    THEN [ok |-> FALSE, error |-> "transient", attempts |-> attempt,
          slept |-> slept]
    ELSE CASE outcomes[attempt + 1] = "ok" ->
                [ok |-> TRUE, error |-> "none", attempts |-> attempt + 1,
                 slept |-> slept]
           [] outcomes[attempt + 1] = "other" ->
                [ok |-> FALSE, error |-> "other", attempts |-> attempt + 1,
                 slept |-> slept]
           [] outcomes[attempt + 1] = "transient" ->
                IF attempt < max_attempts - 1
                THEN retry_sheets_fetch(outcomes, max_attempts, attempt + 1,
                         slept + SHEETS_FETCH_RETRY_DELAY * (attempt + 1))
                ELSE [ok |-> FALSE, error |-> "transient",
                      attempts |-> attempt + 1, slept |-> slept]

\* A call of fetch_fn with no retry around it.
fetch_once(outcomes) ==
    [ok |-> outcomes[1] = "ok",
     error |-> IF outcomes[1] = "ok" THEN "none" ELSE outcomes[1],
     attempts |-> 1, slept |-> 0]

\* _get_article_usage_counts._fetch: article -> rows of the register with it
ArticleNames ==
    SeqToSet(ARTICLES_IN) \cup SeqToSet(ARTICLES_OUT)
        \cup {ARTICLE_TRANSFER_OUT, ARTICLE_TRANSFER_IN}
article_usage_counts(reg) ==
    [a \in ArticleNames |->
        Cardinality({i \in 1..Len(reg) : reg[i] # BlankRow /\ reg[i][7] = a})]

\* _fetch_balances_via_rest: the balance cells of the register sheet, which
\* the sheet keeps as the sum of the amounts of each wallet's rows
fetch_balances(reg) ==
    [w \in AllWallets |->
        SumAmounts(reg, {i \in 1..Len(reg) :
                            reg[i] # BlankRow /\ reg[i][3] = w})]

\* The value fetch_fn returns for a key of _cache.
fetch_fn(key, reg) ==
    CASE key = "article_usage" -> article_usage_counts(reg)
      [] key = "balances" -> fetch_balances(reg)

\* `now - ts < CACHE_TTL` of _cached
fresh_at_ttl(ts, t) == t - ts <= CACHE_TTL
fresh(ts, t) == t - ts < CACHE_TTL

\* One step of SpecCache.
CacheStep(reg, c, t, s, ev) ==
    /\ Len(reg) <= MaxCacheRows
    /\ t <= MaxNow
    /\ register' = reg
    /\ cache' = c
    /\ now' = t
    /\ served' = s
    /\ last' = ev
    /\ UNCHANGED <<conv, user_data, text_edit_waiting, reply, snap, fund_rules,
                   funds, workers, book, adding, added,
                   rule_run, settings,
                   sheets, access>>

\* The clock goes on between two events.
tick == CacheStep(register, cache, now + Tick, served, "tick")

\* The model follows a fetch that sleeps while the seconds slept since the
\* last tick are at most MaxSlept.
SleepBounded(slept) == slept = 0 \/ (now % Tick) + slept <= MaxSlept

\* _cached
cached(key, outcomes) ==
    IF cache[key] # <<>> /\ fresh(cache[key][1].ts, now)
    THEN CacheStep(register, cache, now,
                   [key |-> key, ok |-> TRUE, hit |-> TRUE, error |-> "none",
                    attempts |-> 0, slept |-> 0], "cached")
    ELSE LET r == retry_sheets_fetch(outcomes, SHEETS_FETCH_RETRIES, 0, 0)
         IN  /\ SleepBounded(r.slept)
             /\ IF r.ok
                THEN CacheStep(register,
                         [cache EXCEPT ![key] =
                             <<[val |-> fetch_fn(key, register), ts |-> now]>>],
                         now + r.slept,
                         [key |-> key, ok |-> TRUE, hit |-> FALSE,
                          error |-> "none", attempts |-> r.attempts,
                          slept |-> r.slept],
                         "cached")
                ELSE CacheStep(register, cache, now + r.slept,
                         [key |-> key, ok |-> FALSE, hit |-> FALSE,
                          error |-> r.error, attempts |-> r.attempts,
                          slept |-> r.slept],
                         "cached")

\* A read that calls its fetch itself, with no cache and no retry: `c` is
\* the cache it leaves.
direct(key, c, outcomes, ev) ==
    LET r == fetch_once(outcomes)
    IN  CacheStep(register, c, now,
                  [key |-> key, ok |-> r.ok, hit |-> FALSE, error |-> r.error,
                   attempts |-> r.attempts, slept |-> r.slept], ev)

\* _get_article_usage_counts
get_article_usage_counts(outcomes) == cached("article_usage", outcomes)

\* get_balances
get_balances(use_cache, outcomes) ==
    IF use_cache THEN cached("balances", outcomes)
    ELSE direct("balances", [cache EXCEPT !["balances"] = <<>>], outcomes,
                "get_balances")

\* get_daily_income, its get_transfer_articles served: the reads of the
\* columns of the register
get_daily_income_read(outcomes) ==
    direct("daily_income", cache, outcomes, "get_daily_income")

\* get_fund_transfers_done_today
get_fund_transfers_done_today_read(outcomes) ==
    direct("fund_transfers_done", cache, outcomes,
           "get_fund_transfers_done_today")

\* _send_balance_after once the append of a commit has returned:
\* invalidate_balances_cache, then get_balances(False)
send_balance_after_cache(reg, outcomes, ev) ==
    LET r == fetch_once(outcomes)
    IN  CacheStep(reg,
                  [invalidate_balances_cache(cache) EXCEPT !["balances"] = <<>>],
                  now,
                  [key |-> "balances", ok |-> r.ok, hit |-> FALSE,
                   error |-> r.error, attempts |-> r.attempts,
                   slept |-> r.slept], ev)

\* The commit of an income or an expense (_save_income_expense_callback and
\* text_confirm_yes): append_operation raises, or it returns and
\* _send_balance_after follows.
commit_operation(amount, outcomes) ==
    \/ CacheStep(register, cache, now, served, "commit_failed")
    \/ send_balance_after_cache(
           append_operation(register, TODAY, amount, WALLETS[1], DIRECTION,
               "", "", IF amount < 0 THEN ARTICLES_OUT[1] ELSE ARTICLES_IN[1]),
           outcomes, "commit")

\* The commit of a transfer (_save_transfer_callback and text_confirm_yes):
\* append_transfer raises, with no row or with the first row written, or it
\* returns and _send_balance_after follows.
commit_transfer(amount, outcomes) ==
    \E res \in append_transfer(register, TODAY, amount, WALLETS[1],
                   WALLETS[2], "", DIRECTION, <<>>) :
      IF res.ok
      THEN send_balance_after_cache(res.reg, outcomes, "commit")
      ELSE CacheStep(res.reg, cache, now, served,
                     IF res.reg = register THEN "commit_failed"
                     ELSE "commit_partial")

InitCache ==
    /\ conv = END
    /\ user_data = EmptyUD
    /\ text_edit_waiting = FALSE
    /\ register = <<>>
    /\ reply = "none"
    /\ last = "none"
    /\ snap = NoSnap
    /\ fund_rules =
         << [source |-> "Bank", destination |-> "Fund B", percent |-> 70] >>
    /\ funds = NoFunds
    /\ workers = NoWorkers
    /\ cache = NoCache
    /\ now = 0
    /\ served = NoRead
    /\ book = NoBook
    /\ adding = NoAdding
    /\ added = NoAdded
    /\ rule_run = NoRuleRun
    /\ settings = NoSettings
    /\ sheets = Directories
    /\ access = NoAccess

NextCache ==
    \/ \E outcomes \in PlainOutcomes : get_article_usage_counts(outcomes)
    \/ \E use_cache \in BOOLEAN, outcomes \in PlainOutcomes :
         get_balances(use_cache, outcomes)
    \/ \E outcomes \in PlainOutcomes : commit_operation(100, outcomes)
    \/ \E outcomes \in PlainOutcomes : commit_transfer(100, outcomes)
    \/ run_funds_logic /\ Len(register') <= MaxCacheRows

SpecCache == InitCache /\ [][NextCache]_vars

(***************************************************************************)
(* SpecReads: the reads of the ledger as the clock goes on, each fetch     *)
(* returning or raising at every attempt.                                  *)
(***************************************************************************)
NextReads ==
    \/ tick
    \/ \E outcomes \in OutcomeLists : get_article_usage_counts(outcomes)
    \/ \E use_cache \in BOOLEAN, outcomes \in OutcomeLists :
         get_balances(use_cache, outcomes)
    \/ \E outcomes \in OutcomeLists : get_daily_income_read(outcomes)
    \/ \E outcomes \in OutcomeLists :
         get_fund_transfers_done_today_read(outcomes)

SpecReads == InitCache /\ [][NextReads]_vars

(***************************************************************************)
(* The wallet slots of the spreadsheet and add_wallet.                     *)
(***************************************************************************)
WALLET_SLOTS_COUNT == 12

\* str() and int() of a slot number, and str.isdigit() for the texts of the
\* model.
DigitStr == <<"1", "2", "3", "4", "5", "6", "7", "8", "9", "10", "11", "12">>
str(n) == DigitStr[n]
isdigit(s) == \E n \in 1..Len(DigitStr) : DigitStr[n] = s
int(s) == CHOOSE n \in 1..Len(DigitStr) : DigitStr[n] = s

\* The slots the spreadsheet of the model has, all of them free: the
\* settings rows with the sheet number in column A, the hidden sheets named
\* by their number, the hidden rows of the summary and the name cells at
\* the top of the register sheet.
Slots == 1..MaxSlots
InitBook ==
    [settings |-> [p \in Slots |-> [a |-> str(p), b |-> ""]],
     sheets |-> [i \in Slots |-> [title |-> str(i), hidden |-> TRUE,
                                  a1 |-> ""]],
     summary |-> [p \in Slots |-> [hidden |-> TRUE, a |-> ""]],
     month |-> [i \in Slots |-> ""]]

\* A cell that holds only a number from 1 to 12.
is_slot_number(val) == isdigit(val) /\ int(val) \in 1..WALLET_SLOTS_COUNT

\* get_free_wallet_slots._fetch
get_free_wallet_slots(b) ==
    {[position |-> p, sheet_number |-> int(b.settings[p].a)] :
        p \in {q \in Slots : is_slot_number(b.settings[q].a)}}
first_free_wallet_slot(b) ==
    CHOOSE s \in get_free_wallet_slots(b) :
        \A t \in get_free_wallet_slots(b) : s.position <= t.position

\* get_first_free_month_slot: the free name cells in the order of
\* _MONTH_SHEET_SLOT_ORDER
free_month_slots(b) ==
    {i \in Slots : b.month[i] = "" \/ is_slot_number(b.month[i])}
Min(S) == CHOOSE x \in S : \A y \in S : x <= y

\* How a call of add_wallet ends: it returns, a request to the spreadsheet
\* fails, or add_wallet itself raises.
Done(b) == [ok |-> TRUE, error |-> "none", book |-> b]
Fault(b) == [ok |-> FALSE, error |-> "fault", book |-> b]
Raised(b) == [ok |-> FALSE, error |-> "raised", book |-> b]

\* add_wallet, step 5: the name in the first free name cell of the register
\* sheet
add_wallet_month(b, name) ==
    {Fault(b)} \cup
    IF free_month_slots(b) = {} THEN {Raised(b)}
    ELSE {Done([b EXCEPT !.month[Min(free_month_slots(b))] = name])}

\* add_wallet, step 4: the row of the summary shown and named
add_wallet_summary(b, position, name) ==
    LET shown == [b EXCEPT !.summary[position].hidden = FALSE]
        named == [shown EXCEPT !.summary[position].a = name]
    IN  {Fault(b), Fault(shown)} \cup add_wallet_month(named, name)

\* add_wallet, steps 2 and 3: the hidden sheet of the slot shown and
\* renamed (the spreadsheet refuses a title another sheet has), then its A1
\* set, a failure of which is passed over
add_wallet_sheet(b, position, sheet_number, name) ==
    LET targets == {i \in Slots : b.sheets[i].title = str(sheet_number)}
        t == Min(targets)
        renamed == [b EXCEPT !.sheets[t].title = name,
                             !.sheets[t].hidden = FALSE]
        marked == [renamed EXCEPT !.sheets[t].a1 = name]
    IN  {Fault(b)} \cup
        IF targets = {} THEN {Raised(b)}
        ELSE IF \E i \in Slots : b.sheets[i].title = name THEN {}
        ELSE add_wallet_summary(renamed, position, name)
                 \cup add_wallet_summary(marked, position, name)

\* add_wallet: the books it can leave
add_wallet(b, position, sheet_number, wallet_name) ==
    LET name == strip(wallet_name)
        named == [b EXCEPT !.settings[position].a = name]
        opened == [named EXCEPT !.settings[position].b = "0"]
    IN  IF \/ position \notin 1..WALLET_SLOTS_COUNT
           \/ sheet_number \notin 1..WALLET_SLOTS_COUNT
           \/ name = ""
        THEN {Raised(b)}
        ELSE {Fault(b), Fault(named)}
                 \cup add_wallet_sheet(opened, position, sheet_number, name)

\* One step of the wallet specifications.
WalletStep(b, ad, a, c, r, ev) ==
    /\ book' = b
    /\ adding' = ad
    /\ added' = a
    /\ cache' = c
    /\ reply' = r
    /\ last' = ev
    /\ UNCHANGED <<conv, user_data, text_edit_waiting, register, snap,
                   fund_rules, funds, workers, now, served, rule_run, settings,
                   sheets, access>>

\* added before any call of add_wallet.
NeverAdded ==
    [args |-> <<>>, ok |-> TRUE, error |-> "none", rerun |-> FALSE,
     origin |-> <<>>]

\* added after a call with the arguments args that ended as res: a call
\* with the arguments of a call that has just failed is a rerun of it, and
\* keeps the book found by the first of these calls.
Called(args, res) ==
    LET rerun == ~added.ok /\ added.args = args
    IN  [args |-> args, ok |-> res.ok, error |-> res.error, rerun |-> rerun,
         origin |-> IF rerun THEN added.origin ELSE book]

\* add_wallet called with a slot and a name; a call that returns ends with
\* the keys "wallets", "balances" and "article_usage" out of the cache
add_wallet_call(position, sheet_number, wallet_name) ==
    \E res \in add_wallet(book, position, sheet_number, wallet_name) :
      WalletStep(res.book, adding,
                 Called(<<position, sheet_number, wallet_name>>, res),
                 IF res.ok THEN invalidate_balances_cache(cache) ELSE cache,
                 IF res.ok THEN "wallet_added" ELSE "wallet_error",
                 "add_wallet")

\* The names of the wallets the model adds.
WalletNames == {"Alpha", "Beta"}

InitWallet ==
    /\ conv = END
    /\ user_data = EmptyUD
    /\ text_edit_waiting = FALSE
    /\ register = <<>>
    /\ reply = "none"
    /\ last = "none"
    /\ snap = NoSnap
    /\ fund_rules = <<>>
    /\ funds = NoFunds
    /\ workers = NoWorkers
    /\ cache = NoCache
    /\ now = 0
    /\ served = NoRead
    /\ book = InitBook
    /\ adding = [u \in Users |-> <<>>]
    /\ added = NeverAdded
    /\ rule_run = NoRuleRun
    /\ settings = NoSettings
    /\ sheets = Directories
    /\ access = NoAccess

NextWallet ==
    \E position \in Slots, sheet_number \in Slots, name \in WalletNames :
      add_wallet_call(position, sheet_number, name)

SpecWallet == InitWallet /\ [][NextWallet]_vars

(***************************************************************************)
(* SpecAddWallet: the "add wallet" flows of two users.                     *)
(***************************************************************************)
\* handle_settings_callback, CB_SETTINGS_ADD_WALLET: the first free slot is
\* kept in the user's user_data and the user is asked for the name
settings_add_wallet(u) ==
    \/ WalletStep(book, adding, added, cache, "read_error",
                  "settings_add_wallet_failed")
    \/ IF get_free_wallet_slots(book) = {}
       THEN WalletStep(book, adding, added, cache, "no_free_slots",
                       "settings_add_wallet")
       ELSE WalletStep(book,
                       [adding EXCEPT ![u] = <<first_free_wallet_slot(book)>>],
                       added, cache, "ask_wallet_name", "settings_add_wallet")

\* _handle_settings_add_wallet_name_input, reached through handle_form when
\* the user is waited for and user_data holds a slot; text is the message,
\* stripped
settings_add_wallet_name_input(u, text) ==
    /\ adding[u] # <<>>
    /\ LET slot == adding[u][1]
           left == [adding EXCEPT ![u] = <<>>]
       IN  IF text = ""
           THEN WalletStep(book, left, added, cache, "cancelled",
                           "add_wallet_name_empty")
           ELSE \E res \in add_wallet(book, slot.position, slot.sheet_number,
                                      text) :
                  WalletStep(res.book, left,
                      Called(<<slot.position, slot.sheet_number, text>>, res),
                      IF res.ok THEN invalidate_balances_cache(cache)
                      ELSE cache,
                      IF res.ok THEN "wallet_added" ELSE "wallet_error",
                      "add_wallet_name")

NextAddWallet ==
    \/ \E u \in Users : settings_add_wallet(u)
    \/ \E u \in Users, text \in WalletNames \cup {""} :
         settings_add_wallet_name_input(u, text)

SpecAddWallet == InitWallet /\ [][NextAddWallet]_vars

(***************************************************************************)
(* The arithmetic of the rule loop of _run_funds_logic.  new_revenue and   *)
(* percent are Python floats (IEEE 754 binary64): a float is m * 2^e with  *)
(* m a natural number below 2^53, and every operation returns the float    *)
(* nearest to its exact result, a tie going to the even m.  m is kept as   *)
(* its limbs, the least significant first, without a zero at the top.      *)
(***************************************************************************)
Limb == 2^15
Precision == 53
Guard == 70

RECURSIVE Trim(_)
Trim(a) ==
    IF a # <<>> /\ a[Len(a)] = 0 THEN Trim(SubSeq(a, 1, Len(a) - 1)) ELSE a

RECURSIVE ToBig(_)
ToBig(n) == IF n = 0 THEN <<>> ELSE <<n % Limb>> \o ToBig(n \div Limb)

RECURSIVE ToInt(_)
ToInt(a) == IF a = <<>> THEN 0 ELSE a[1] + Limb * ToInt(Tail(a))

RECURSIVE AddCarry(_, _, _)
AddCarry(a, b, c) ==
    IF a = <<>> /\ b = <<>> THEN ToBig(c)
    ELSE LET s == (IF a = <<>> THEN 0 ELSE a[1])
                  + (IF b = <<>> THEN 0 ELSE b[1]) + c
         IN  <<s % Limb>> \o AddCarry(IF a = <<>> THEN <<>> ELSE Tail(a),
                                      IF b = <<>> THEN <<>> ELSE Tail(b),
                                      s \div Limb)
Add(a, b) == AddCarry(a, b, 0)

\* a * n + c for a limb n
RECURSIVE MulLimb(_, _, _)
MulLimb(a, n, c) ==
    IF a = <<>> THEN ToBig(c)
    ELSE LET s == a[1] * n + c
         IN  <<s % Limb>> \o MulLimb(Tail(a), n, s \div Limb)

RECURSIVE Mul(_, _)
Mul(a, b) ==
    IF b = <<>> THEN <<>>
    ELSE Trim(Add(MulLimb(a, b[1], 0), <<0>> \o Mul(a, Tail(b))))

\* quotient and remainder of a by d, 0 < d <= Limb
RECURSIVE DivMod(_, _)
DivMod(a, d) ==
    IF a = <<>> THEN [q |-> <<>>, r |-> 0]
    ELSE LET hi == DivMod(Tail(a), d)
             cur == hi.r * Limb + a[1]
         IN  [q |-> <<cur \div d>> \o hi.q, r |-> cur % d]

Zeros(n) == [i \in 1..n |-> 0]
Shl(a, k) == Trim(Zeros(k \div 15) \o MulLimb(a, 2^(k % 15), 0))
Shr(a, k) == Trim(DivMod(SubSeq(a, k \div 15 + 1, Len(a)), 2^(k % 15)).q)

RECURSIVE Bits(_)
Bits(n) == IF n = 0 THEN 0 ELSE 1 + Bits(n \div 2)
BitLen(a) == IF a = <<>> THEN 0 ELSE (Len(a) - 1) * 15 + Bits(a[Len(a)])
Odd(a) == a # <<>> /\ a[1] % 2 = 1

\* The float nearest to (m + f) * 2^e, where 0 <= f < 1 and sticky tells
\* f > 0: round to nearest, a tie to the even mantissa.
RoundFloat(m, e, sticky) ==
    IF BitLen(m) <= Precision THEN [m |-> m, e |-> e]
    ELSE LET k == BitLen(m) - Precision
             t == Shr(m, k - 1)
             q == Shr(t, 1)
             more == sticky \/ Shl(t, k - 1) # m
         IN  [m |-> IF Odd(t) /\ (more \/ Odd(q)) THEN Add(q, <<1>>) ELSE q,
              e |-> e + k]

\* float of the decimal num / den (a number read from text, or the result
\* of round(x, 2)), and x / den for a whole den; 0 < den <= Limb
float_div(m, e, den) ==
    LET d == DivMod(Shl(m, Guard), den)
    IN  RoundFloat(Trim(d.q), e - Guard, d.r # 0)
float(num, den) ==
    IF num = 0 THEN [m |-> <<>>, e |-> 0] ELSE float_div(ToBig(num), 0, den)
float_truediv(x, den) ==
    IF x.m = <<>> THEN x ELSE float_div(x.m, x.e, den)
float_mul(x, y) == RoundFloat(Mul(x.m, y.m), x.e + y.e, FALSE)
\* x + 0.5 for x >= 0
float_add_half(x) ==
    IF x.e <= 0 - 1
    THEN RoundFloat(Add(x.m, Shl(<<1>>, 0 - 1 - x.e)), x.e, FALSE)
    ELSE RoundFloat(Add(Shl(x.m, x.e + 1), <<1>>), 0 - 1, FALSE)
\* int(x) for x >= 0
float_int(x) ==
    IF x.e >= 0 THEN ToInt(Shl(x.m, x.e)) ELSE ToInt(Shr(x.m, 0 - x.e))

\* raw and to_transfer of the loop for a new_revenue in kopecks and a
\* percent in hundredths of a percent, raw >= 0
raw(revenue, percent) ==
    float_truediv(float_mul(float(revenue, 100), float(percent, 100)), 100)
to_transfer_float(revenue, percent) ==
    float_int(float_add_half(raw(revenue, percent)))

(***************************************************************************)
(* SpecRule: one rule of the loop of _run_funds_logic, Bank -> Fund A,     *)
(* applied to a new_revenue that the pass has computed.                    *)
(***************************************************************************)
\* The new revenues of the model, in kopecks, and the percents of its rule,
\* in hundredths of a percent (a percent typed in is rounded to 2 places).
Revenues == {k * 12500 : k \in 1..MaxRevenueSteps} \cup {75, 33300, 33500}
Percents == {0, 230, 460, 500, 1000, 1250, 7000}

RuleStep(reg, r, amount) ==
    /\ register' = reg
    /\ reply' = r
    /\ last' = "rule"
    /\ rule_run' = [rule_run EXCEPT !.to_transfer = amount, !.done = TRUE]
    /\ UNCHANGED <<conv, user_data, text_edit_waiting, snap, fund_rules,
                   funds, workers, cache, now, served, book, adding, added,
                   settings,
                   sheets, access>>

\* the body of the loop for the rule of rule_run, and the end of the pass
run_rule ==
    /\ ~rule_run.done
    /\ IF rule_run.percent <= 0
          \/ to_transfer_float(rule_run.new_revenue, rule_run.percent) <= 0
       THEN RuleStep(register, "not_performed", 0)
       ELSE \E res \in append_transfer(register, TODAY,
                           to_transfer_float(rule_run.new_revenue,
                                             rule_run.percent) * 100,
                           "Bank", "Fund A", FUND_PURPOSE, DIRECTION,
                           <<FUND_PURPOSE_INFLOW>>) :
              RuleStep(res.reg, "distributed",
                       to_transfer_float(rule_run.new_revenue,
                                         rule_run.percent))

InitRule ==
    /\ conv = END
    /\ user_data = EmptyUD
    /\ text_edit_waiting = FALSE
    /\ register = <<>>
    /\ reply = "none"
    /\ last = "none"
    /\ snap = NoSnap
    /\ fund_rules = DEFAULT_FUND_RULES
    /\ funds = NoFunds
    /\ workers = NoWorkers
    /\ cache = NoCache
    /\ now = 0
    /\ served = NoRead
    /\ book = NoBook
    /\ adding = NoAdding
    /\ added = NoAdded
    /\ rule_run \in [new_revenue : Revenues, percent : Percents,
                     to_transfer : {0}, done : {FALSE}]
    /\ settings = NoSettings
    /\ sheets = Directories
    /\ access = NoAccess

NextRule == run_rule

SpecRule == InitRule /\ [][NextRule]_vars

(***************************************************************************)
(* SpecFundSettings: the fund rule settings of one user.  A rule is a      *)
(* Python dict, and the lists that hold it (bot_data["fund_rules"], the    *)
(* draft list of an edit, DEFAULT_FUND_RULES) hold the same dict: list()   *)
(* copies the list and not its dicts.  objs maps the name of a dict to its *)
(* content, and a list of rules is the list of the names of its dicts.     *)
(* A percent is a whole number of percents.                                *)
(***************************************************************************)
\* {"source": "", "destination": "", "percent": 0.0}; a key a dict lacks
\* reads as "" or 0 in every r.get of the program.
NewRule == [source |-> "", destination |-> "", percent |-> 0]

\* the rules of a list of names
RulesOf(objs, ids) == [i \in 1..Len(ids) |-> objs[ids[i]]]

\* The names s still holds in the order ids, new rule, draft, each once;
\* s without the dicts it lost, the dicts named by their place in that order
\* (a name is the identity of a dict and nothing else).
RECURSIVE Dedup(_)
Dedup(seq) ==
    IF seq = <<>> THEN <<>>
    ELSE LET d == Dedup(SubSeq(seq, 1, Len(seq) - 1))
         IN  IF seq[Len(seq)] \in SeqToSet(d) THEN d
             ELSE Append(d, seq[Len(seq)])
HeldOrder(s) ==
    Dedup(s.ids \o (IF s.new_rule = <<>> THEN <<>> ELSE s.new_rule)
               \o (IF s.draft = <<>> THEN <<>> ELSE s.draft[1]))
PlaceIn(order, id) == CHOOSE k \in 1..Len(order) : order[k] = id
Collected(s) ==
    LET order == HeldOrder(s)
    IN  [s EXCEPT
           !.objs = [k \in 1..Len(order) |-> s.objs[order[k]]],
           !.ids = [i \in 1..Len(s.ids) |-> PlaceIn(order, s.ids[i])],
           !.new_rule = IF s.new_rule = <<>> THEN <<>>
                        ELSE <<PlaceIn(order, s.new_rule[1])>>,
           !.draft = IF s.draft = <<>> THEN <<>>
                     ELSE <<[i \in 1..Len(s.draft[1]) |->
                               PlaceIn(order, s.draft[1][i])]>>]

\* the name of a new dict
fresh_obj(s) == Len(s.objs) + 1
WithObj(s, id, r) == [s EXCEPT !.objs = Append(@, r)]

\* One handled event of the settings: the settings after it, the reply and
\* the branch; bot_data["fund_rules"] is read through the names.
SettingsStep(s, r, ev) ==
    /\ Len(s.ids) <= MaxRules
    /\ Len(Collected(s).objs) <= MaxDicts
    /\ settings' = Collected(s)
    /\ fund_rules' = RulesOf(s.objs, s.ids)
    /\ reply' = r
    /\ last' = ev
    /\ UNCHANGED <<conv, user_data, text_edit_waiting, register, snap, funds,
                   workers, cache, now, served, book, adding, added,
                   rule_run, sheets, access>>

\* the five pops of CB_SETTINGS_FUNDS_BACK and CB_SETTINGS_FUNDS_BACK_TO_LIST
PopFundKeys(s) ==
    [s EXCEPT !.phase = <<>>, !.idx = <<>>, !.new_rule = <<>>,
              !.draft = <<>>, !.wallets = FALSE, !.waiting = FALSE]

\* context.user_data.get("_settings_fund_rule_idx", 0)
rule_idx(s) == IF s.idx = <<>> THEN 0 ELSE s.idx[1]

\* list(context.user_data.get("_settings_fund_rules_draft")
\*      or _get_fund_rules(context))
draft_or_rules(s) ==
    IF s.draft # <<>> /\ s.draft[1] # <<>> THEN s.draft[1] ELSE s.ids

\* context.user_data.get("_settings_fund_wallets", [])
fund_wallets(s) == IF s.wallets THEN WALLETS ELSE <<>>

\* _save_fund_rules: bot_data["fund_rules"] = list(rules).  The JSON file it
\* writes is read at start-up only, and is no part of the state.
save_fund_rules(s, rules) == [s EXCEPT !.ids = rules]

settings_funds_back ==
    SettingsStep(PopFundKeys(settings), "settings_menu", "funds_back")

settings_funds_back_to_list ==
    SettingsStep(PopFundKeys(settings), "rules_list", "funds_back_to_list")

settings_funds == SettingsStep(settings, "rules_list", "funds_list")

settings_funds_add ==
    LET s == WithObj([settings EXCEPT !.idx = <<0 - 1>>,
                                      !.new_rule = <<fresh_obj(settings)>>],
                     fresh_obj(settings), NewRule)
    IN  \E w \in get_wallets :
          IF w.ok
          THEN SettingsStep([s EXCEPT !.wallets = TRUE], "ask_source",
                            "funds_add")
          ELSE SettingsStep(s, "error", "funds_add")

settings_funds_edit(idx) ==
    IF idx < 0 \/ idx >= Len(settings.ids)
    THEN SettingsStep(settings, "none", "funds_edit")
    ELSE LET s == [settings EXCEPT !.idx = <<idx>>,
                                   !.draft = <<settings.ids>>]
         IN  \E w \in get_wallets :
               IF w.ok
               THEN SettingsStep([s EXCEPT !.wallets = TRUE], "ask_source",
                                 "funds_edit")
               ELSE SettingsStep(s, "error", "funds_edit")

\* rules[rule_idx][key] = value of the edit branches: the dict itself changes
SetInRules(s, rules, key, value) ==
    IF 0 <= rule_idx(s) /\ rule_idx(s) < Len(rules)
    THEN [s EXCEPT !.objs[rules[rule_idx(s) + 1]][key] = value]
    ELSE s

settings_funds_src(i) ==
    IF i < 0 \/ i >= Len(fund_wallets(settings))
    THEN SettingsStep(settings, "none", "funds_src")
    ELSE IF rule_idx(settings) < 0
    THEN SettingsStep(
             WithObj([settings EXCEPT !.new_rule = <<fresh_obj(settings)>>],
                     fresh_obj(settings),
                     [NewRule EXCEPT !.source = WALLETS[i + 1]]),
             "ask_destination", "funds_src")
    ELSE SettingsStep(
             [SetInRules(settings, draft_or_rules(settings), "source",
                         WALLETS[i + 1])
                EXCEPT !.draft = <<draft_or_rules(settings)>>],
             "ask_destination", "funds_src")

\* context.user_data.get("_settings_fund_new_rule", {}): the name of the
\* draft dict, a new empty dict when the key is absent
new_rule_obj(s) == IF s.new_rule = <<>> THEN fresh_obj(s) ELSE s.new_rule[1]
WithNewRule(s) ==
    IF s.new_rule = <<>> THEN WithObj(s, fresh_obj(s), NewRule) ELSE s

settings_funds_dst(i) ==
    IF i < 0 \/ i >= Len(fund_wallets(settings))
    THEN SettingsStep(settings, "none", "funds_dst")
    ELSE IF rule_idx(settings) < 0
    THEN SettingsStep(
             [WithNewRule(settings)
                EXCEPT !.objs[new_rule_obj(settings)].destination =
                           WALLETS[i + 1],
                       !.new_rule = <<new_rule_obj(settings)>>],
             "ask_percent", "funds_dst")
    ELSE SettingsStep(
             [SetInRules(settings, draft_or_rules(settings), "destination",
                         WALLETS[i + 1])
                EXCEPT !.draft = <<draft_or_rules(settings)>>],
             "ask_percent", "funds_dst")

settings_funds_pct_custom ==
    SettingsStep([settings EXCEPT !.phase = <<"percent">>, !.waiting = TRUE],
                 "ask_percent_text", "funds_pct_custom")

\* The end of both percent handlers: the percent goes into the new rule,
\* which is appended, or into the rule of the edit; the list is saved.
set_percent(s, pct, ev) ==
    LET t == IF rule_idx(s) < 0
             THEN [WithNewRule(s)
                     EXCEPT !.objs[new_rule_obj(s)].percent = pct,
                            !.new_rule = <<>>]
             ELSE [SetInRules(s, draft_or_rules(s), "percent", pct)
                     EXCEPT !.draft = <<>>]
         rules == IF rule_idx(s) < 0
                  THEN Append(s.ids, new_rule_obj(s))
                  ELSE draft_or_rules(s)
    IN  SettingsStep([save_fund_rules(t, rules)
                        EXCEPT !.idx = <<>>, !.wallets = FALSE],
                     IF rule_idx(s) < 0 THEN "rule_added"
                     ELSE "rule_updated", ev)

\* one of the percent buttons of _keyboard_fund_percent
PercentButtons == {20}

settings_funds_pct(pct) ==
    IF pct < 0 \/ pct > 100
    THEN SettingsStep(settings, "none", "funds_pct")
    ELSE set_percent(settings, pct, "funds_pct")

\* The texts a user types where a percent is asked for.
PercentTexts == {"150", "abc"}

\* pct of _handle_settings_fund_input, for a text of whole percents
percent_of(text) ==
    IF parse_amount(text) = <<>> \/ parse_amount(text)[1] < 0 THEN 0
    ELSE parse_amount(text)[1] \div 100

\* handle_form for a user in _settings_waiting_user_ids with no add-wallet
\* position: _handle_settings_fund_input
settings_fund_input(text) ==
    /\ settings.waiting
    /\ IF settings.phase # <<"percent">>
       THEN SettingsStep([settings EXCEPT !.phase = <<>>, !.waiting = FALSE],
                         "none", "fund_input")
       ELSE set_percent([settings EXCEPT !.phase = <<>>, !.waiting = FALSE],
                        percent_of(text), "fund_input")

settings_funds_del(idx) ==
    IF 0 <= idx /\ idx < Len(settings.ids)
    THEN SettingsStep(
             save_fund_rules(settings,
                 [i \in 1..(Len(settings.ids) - 1) |->
                    IF i <= idx THEN settings.ids[i]
                    ELSE settings.ids[i + 1]]),
             "rule_deleted", "funds_del")
    ELSE SettingsStep(settings, "rules_list", "funds_del")

\* bot_data["fund_rules"] once _get_fund_rules has read it: one rule of 70 %,
\* no settings key in user_data.
InitSettings ==
    [phase |-> <<>>, idx |-> <<>>, new_rule |-> <<>>, draft |-> <<>>,
     wallets |-> FALSE, waiting |-> FALSE,
     objs |-> << [source |-> "Bank", destination |-> "Fund B",
                  percent |-> 70] >>,
     ids |-> <<1>>]

\* The wallet button of the model in the source and destination keyboards:
\* the second wallet.
WalletButtons == {Len(WALLETS) - 1}

InitFundSettings ==
    /\ conv = END
    /\ user_data = EmptyUD
    /\ text_edit_waiting = FALSE
    /\ register = <<>>
    /\ reply = "none"
    /\ last = "none"
    /\ snap = NoSnap
    /\ fund_rules = RulesOf(InitSettings.objs, InitSettings.ids)
    /\ funds = NoFunds
    /\ workers = NoWorkers
    /\ cache = NoCache
    /\ now = 0
    /\ served = NoRead
    /\ book = NoBook
    /\ adding = NoAdding
    /\ added = NoAdded
    /\ rule_run = NoRuleRun
    /\ settings = InitSettings
    /\ sheets = Directories
    /\ access = NoAccess

NextFundSettings ==
    \/ settings_funds_back
    \/ settings_funds_back_to_list
    \/ settings_funds
    \/ settings_funds_add
    \/ \E idx \in 0..(MaxRules - 1) : settings_funds_edit(idx)
    \/ \E i \in WalletButtons : settings_funds_src(i)
    \/ \E i \in WalletButtons : settings_funds_dst(i)
    \/ settings_funds_pct_custom
    \/ \E pct \in PercentButtons : settings_funds_pct(pct)
    \/ \E text \in PercentTexts : settings_fund_input(text)
    \/ \E idx \in 0..(MaxRules - 1) : settings_funds_del(idx)

SpecFundSettings == InitFundSettings /\ [][NextFundSettings]_vars

(***************************************************************************)
(* SpecPages: the dialog over a spreadsheet whose lists of wallets and of  *)
(* categories take more than one page of LIST_PAGE_SIZE buttons, or are    *)
(* empty.                                                                  *)
(***************************************************************************)
\* The wallets and the inflow categories of a long list.
MANY_WALLETS ==
    <<"Bank", "Cash", "W3", "W4", "W5", "W6", "W7", "W8", "W9", "W10", "W11",
      "W12", "W13", "W14", "W15", "W16", "W17", "W18", "W19", "W20">>
MANY_ARTICLES ==
    <<"Sales", "A2", "A3", "A4", "A5", "A6", "A7", "A8", "A9", "A10", "A11">>

\* The lists of wallets of the spreadsheets followed: none, and the first
\* MaxWallets of MANY_WALLETS.
WalletLists == {<<>>, SubSeq(MANY_WALLETS, 1, MaxWallets)}

InitPages ==
    /\ conv = END
    /\ user_data = EmptyUD
    /\ text_edit_waiting = FALSE
    /\ register = <<>>
    /\ reply = "none"
    /\ last = "none"
    /\ snap = NoSnap
    /\ fund_rules = <<>>
    /\ funds = NoFunds
    /\ workers = NoWorkers
    /\ cache = NoCache
    /\ now = 0
    /\ served = NoRead
    /\ book = NoBook
    /\ adding = NoAdding
    /\ added = NoAdded
    /\ rule_run = NoRuleRun
    /\ settings = NoSettings
    /\ \E wallets \in WalletLists :
         sheets = [wallets |-> wallets,
                   articles_in |-> SubSeq(MANY_ARTICLES, 1, MaxArticles),
                   articles_out |-> ARTICLES_OUT]
    /\ access = NoAccess

\* The buttons pressed in the list states: the page buttons, one option, back.
NextPages ==
    \/ start_step
    \/ date_today
    \/ \E data \in {"type_in", "type_tr"} : Intact /\ type_selected(data)
    \/ \E data \in {"art_page_next", "art_page_prev", "art:0", "art_back"} :
         Intact /\ article_selected(data)
    \/ \E data \in {"wal_page_next", "wal_page_prev", "wal:Bank", "wal_back"} :
         Intact /\ wallet_selected(data)
    \/ Intact /\ amount_entered("2")
    \/ Intact /\ amount_back
    \/ Intact /\ counterparty_skip
    \/ Intact /\ purpose_skip
    \/ Intact /\ confirm_income_expense("edit")
    \/ \E data \in {"edit_article", "edit_wallet"} :
         Intact /\ confirm_edit_menu(data)
    \/ \E data \in {"edit_art_next", "edit_art_prev", "edit_art:0",
                    "edit_back"} :
         Intact /\ confirm_edit_article(data)
    \/ \E data \in {"edit_wallet_next", "edit_wallet_prev", "edit_wallet:0",
                    "edit_back"} :
         Intact /\ confirm_edit_wallet(data)
    \/ \E data \in {"tr_from_page_next", "tr_from_page_prev", "wal:Bank",
                    "tr_from_back"} :
         Intact /\ transfer_from_selected(data)
    \/ \E data \in {"tr_to_page_next", "tr_to_page_prev", "wal:Cash",
                    "tr_to_back"} :
         Intact /\ transfer_to_selected(data)
    \/ Intact /\ transfer_amount_entered("2")
    \/ Intact /\ transfer_amount_back
    \/ cancel_callback
    \/ handle_form(<<"2", "Bank">>)
    \/ \E data \in {"text_art_next", "text_art_prev", "text_art:0",
                    "text_edit", "text_edit_article", "text_edit_art_next",
                    "text_edit_art_prev", "text_edit_art:0",
                    "text_confirm_no"} :
         handle_text_form_callback(data)

SpecPages == InitPages /\ [][NextPages]_vars

(***************************************************************************)
(* SpecInFlight: the handlers that await a read of the ledger in a worker  *)
(* thread (asyncio.to_thread), taken as two steps, the call and its        *)
(* return, with the events dispatched while the call is in flight.         *)
(***************************************************************************)
\* One step of a handler that is suspended or resumed at a ledger call.
InFlightStep(c, ud, w, reg, ws, r, ev) ==
    /\ conv' = c
    /\ user_data' = ud
    /\ text_edit_waiting' = w
    /\ register' = reg
    /\ workers' = ws
    /\ reply' = r
    /\ last' = ev
    /\ UNCHANGED <<snap, fund_rules, funds, cache, now, served, book, adding,
                   added, rule_run, settings, sheets, access>>

\* The handler suspended at a call, the callback data it was given and the
\* copy of user_data it holds.
Suspended(handler, data, ud) == <<[handler |-> handler, data |-> data, ud |-> ud]>>

\* type_selected for an inflow or an outflow, up to the await of the
\* categories: the type is in the draft, the conversation is still in TYPE_OP
type_selected_call(data) ==
    /\ conv = "TYPE_OP"
    /\ Len(workers) = 0
    /\ InFlightStep(conv, Put(user_data, "type", TypeOf(data)),
                    text_edit_waiting, register,
                    Suspended("type_selected", data, EmptyUD),
                    "loading", "type_call")

\* type_selected after the await: ud is context.user_data as it is now, and
\* the conversation takes the state the handler returns
type_selected_return ==
    /\ Len(workers) = 1
    /\ workers[1].handler = "type_selected"
    /\ \E articles \in
            get_articles_by_type_sorted_by_usage(TypeOf(workers[1].data)) :
         IF ~articles.ok
         THEN InFlightStep(END, EmptyUD, text_edit_waiting, register, <<>>,
                           "fetch_error", "type_return")
         ELSE IF articles.val = <<>>
         THEN InFlightStep(END, user_data, text_edit_waiting, register, <<>>,
                           "no_articles", "type_return")
         ELSE InFlightStep("ARTICLE",
                           Put(Put(user_data, "_articles", articles.val),
                               "_articles_page", 0),
                           text_edit_waiting, register, <<>>,
                           "ask_article", "type_return")

\* article_selected for a category of the list, up to the await of the
\* wallets
article_selected_call(data) ==
    /\ conv = "ARTICLE"
    /\ Len(workers) = 0
    /\ ArticleIndex(data) < Len(GetOr(user_data, "_articles", <<>>))
    /\ InFlightStep(conv,
                    Put(user_data, "article",
                        Get(user_data, "_articles")[ArticleIndex(data) + 1]),
                    text_edit_waiting, register,
                    Suspended("article_selected", data, EmptyUD),
                    reply, "article_call")

\* article_selected after the await
article_selected_return ==
    /\ Len(workers) = 1
    /\ workers[1].handler = "article_selected"
    /\ \E wallets \in get_wallets :
         IF ~wallets.ok
         THEN InFlightStep(END, EmptyUD, text_edit_waiting, register, <<>>,
                           "fetch_error", "article_return")
         ELSE InFlightStep("WALLET",
                           Put(Put(user_data, "_wallets", wallets.val),
                               "_wallets_page", 0),
                           text_edit_waiting, register, <<>>,
                           "ask_wallet", "article_return")

\* handle_text_form_callback, the text_confirm_yes branch of an inflow or an
\* outflow, up to the await of the direction: the handler holds a copy of
\* user_data and has cleared it
text_confirm_yes_call ==
    /\ Has(user_data, "_from_text")
    /\ Has(user_data, "article")
    /\ Len(workers) = 0
    /\ ~Full(register)
    /\ InFlightStep(conv, EmptyUD, FALSE, register,
                    Suspended("text_confirm_yes", "text_confirm_yes", user_data),
                    reply, "text_confirm_call")

\* the text_confirm_yes branch after the await: the row is appended
text_confirm_yes_return ==
    /\ Len(workers) = 1
    /\ workers[1].handler = "text_confirm_yes"
    /\ \E direction \in get_direction :
         IF ~direction.ok
         THEN InFlightStep(conv, user_data, text_edit_waiting, register, <<>>,
                           "error", "text_confirm_return")
         ELSE \E b \in send_balance_after(user_data) :
                InFlightStep(conv, b.ud, text_edit_waiting,
                             text_confirm_operation_append(register,
                                 workers[1].ud, direction.val),
                             <<>>, b.reply, "text_confirm_return")

InitInFlight ==
    /\ conv = END
    /\ user_data = EmptyUD
    /\ text_edit_waiting = FALSE
    /\ register = <<>>
    /\ reply = "none"
    /\ last = "none"
    /\ snap = NoSnap
    /\ fund_rules = <<>>
    /\ funds = NoFunds
    /\ workers = <<>>
    /\ cache = NoCache
    /\ now = 0
    /\ served = NoRead
    /\ book = NoBook
    /\ adding = NoAdding
    /\ added = NoAdded
    /\ rule_run = NoRuleRun
    /\ settings = NoSettings
    /\ sheets = Directories
    /\ access = NoAccess

\* The events of one user; those that find a call in flight are dispatched
\* while the handler that made it is suspended.
NextInFlight ==
    \/ start_step
    \/ date_today
    \/ \E data \in {"type_in", "type_out"} : type_selected_call(data)
    \/ type_selected_return
    \/ type_selected("cancel")
    \/ article_selected_call("art:0")
    \/ article_selected_return
    \/ article_selected("cancel")
    \/ wallet_selected("cancel")
    \/ cancel_cmd
    \/ \E parts \in {<<"2", "Bank">>, <<"Minus", "2", "Bank", "Acme">>} :
         handle_form(parts)
    \/ handle_text_form_callback("text_art:0")
    \/ text_confirm_yes_call
    \/ text_confirm_yes_return

SpecInFlight == InitInFlight /\ [][NextInFlight]_vars

(***************************************************************************)
(* SpecAccess: the updates of two users under an allow-list.  The handler  *)
(* of group -1 takes the updates of the users the list leaves out; the     *)
(* handlers of group 0 take the others.                                    *)
(***************************************************************************)
\* _BlockedUserHandler.check_update, were an empty list to block every user
check_update_no_empty_list(allowed_ids, user) == user \notin allowed_ids

\* _BlockedUserHandler.check_update: the update of this user is one to deny
check_update(allowed_ids, user) ==
    IF allowed_ids = {} THEN FALSE ELSE user \notin allowed_ids

\* The updates that follow come from user u.
update_from(u) ==
    /\ access' = [access EXCEPT !.user = u]
    /\ UNCHANGED <<conv, user_data, text_edit_waiting, register, reply, last,
                   snap, fund_rules, funds, workers, cache, now, served, book,
                   adding, added, rule_run, settings, sheets>>

\* _deny_access_handler: the callback query is answered without a text, no
\* message is sent, and ApplicationHandlerStop keeps the update from the
\* handlers of group 0
deny_access_handler ==
    /\ check_update(access.allowed_ids, access.user)
    /\ last' = "denied"
    /\ UNCHANGED <<conv, user_data, text_edit_waiting, register, reply, snap,
                   fund_rules, funds, workers, cache, now, served, book,
                   adding, added, rule_run, settings, sheets, access>>

\* The update reaches the handlers of group 0; the model follows the session
\* of user 1.
Admitted ==
    ~check_update(access.allowed_ids, access.user) /\ access.user = 1

InitAccess ==
    /\ conv = END
    /\ user_data = EmptyUD
    /\ text_edit_waiting = FALSE
    /\ register = <<>>
    /\ reply = "none"
    /\ last = "none"
    /\ snap = NoSnap
    /\ fund_rules = <<>>
    /\ funds = NoFunds
    /\ workers = NoWorkers
    /\ cache = NoCache
    /\ now = 0
    /\ served = NoRead
    /\ book = NoBook
    /\ adding = NoAdding
    /\ added = NoAdded
    /\ rule_run = NoRuleRun
    /\ settings = NoSettings
    /\ sheets = Directories
    /\ access \in [allowed_ids : SUBSET Users, user : Users]

NextAccess ==
    \/ \E u \in Users : update_from(u)
    \/ deny_access_handler
    \/ Admitted /\ start_step
    \/ Admitted /\ date_today
    \/ Admitted /\ Intact /\ type_selected("type_out")
    \/ Admitted /\ Intact /\ article_selected("art:0")
    \/ Admitted /\ Intact /\ wallet_selected("wal:Bank")
    \/ Admitted /\ Intact /\ amount_entered("2")
    \/ Admitted /\ Intact /\ counterparty_skip
    \/ Admitted /\ Intact /\ purpose_skip
    \/ Admitted /\ confirm_income_expense("confirm_yes")
    \/ Admitted /\ cancel_cmd
    \/ Admitted /\ handle_form(<<"2", "Bank">>)
    \/ \E data \in {"text_art:0", "text_edit_amount", "text_confirm_yes"} :
         Admitted /\ handle_text_form_callback(data)
    \/ Admitted /\ handle_form_waiting("1,5")

SpecAccess == InitAccess /\ [][NextAccess]_vars

(***************************************************************************)
(* SpecSheet: the register sheet cell by cell.  In this specification      *)
(* register is the grid of the sheet: a row is its cells A..K as texts,    *)
(* "" for an empty cell; A, B, J and K hold the formulas of the sheet.     *)
(***************************************************************************)
COL_DATE == 3
COL_ARTICLE == 9
\* The columns of the sheet, A..K, and those of the range "C{n}:I{n}".
SheetColumns == 1..11
RangeColumns == COL_DATE..COL_ARTICLE

\* A row of the grid with nothing in it, and one that holds only formulas.
EmptyGridRow == [c \in SheetColumns |-> ""]
FormulaRow ==
    [c \in SheetColumns |-> IF c \in RangeColumns THEN "" ELSE "=formula"]

\* A grid row with the seven values of an operation in C..I.
Filled(base, row) ==
    [c \in SheetColumns |->
        IF c \in RangeColumns THEN row[c - COL_DATE + 1] ELSE base[c]]

\* The rows handed to _append_row: an inflow, an outflow, and the two rows
\* of a transfer, in the form the sheet takes them.
SheetRows ==
    { <<"02.11.2026", "100", "Bank", "Main", "Acme", "", "Sales">>,
      <<"02.11.2026", "-200", "Cash", "Main", "", "rent", "Rent">>,
      <<"01.11.2026", "-50", "Bank", "Main", "", "",
        "Transfer between accounts (out)">> }

\* The rows the sheet holds before the bot writes: formulas only, an
\* operation, a row with no date but an amount typed by hand, nothing.
GridRows ==
    { FormulaRow, EmptyGridRow,
      Filled(FormulaRow,
             <<"31.10.2026", "10", "Bank", "Main", "", "", "Sales">>),
      Filled(FormulaRow, <<"", "10", "", "", "", "", "">>) }

\* ws.update(range_str, [row]), were the values to start at column A
update_from_column_a(grid, n, row) ==
    [i \in 1..(IF n > Len(grid) THEN n ELSE Len(grid)) |->
        LET old == IF i <= Len(grid) THEN grid[i] ELSE EmptyGridRow
        IN  IF i = n
            THEN [c \in SheetColumns |->
                    IF c <= Len(row) THEN row[c] ELSE old[c]]
            ELSE old]

\* ws.update("C{n}:I{n}", [row]) on the grid
update(grid, n, row) ==
    [i \in 1..(IF n > Len(grid) THEN n ELSE Len(grid)) |->
        LET old == IF i <= Len(grid) THEN grid[i] ELSE EmptyGridRow
        IN  IF i = n THEN Filled(old, row) ELSE old]

\* _next_row_register on the grid: the row after the last one whose date
\* cell is filled
next_row_of_grid(grid) ==
    LET filled == {i \in 1..Len(grid) : grid[i][COL_DATE] # ""}
    IN  IF filled = {} THEN 1
        ELSE (CHOOSE i \in filled : \A j \in filled : j <= i) + 1

\* One step of SpecSheet: the grid, the rows of the call still to write.
SheetStep(grid, rows, ev) ==
    /\ register' = grid
    /\ workers' = rows
    /\ last' = ev
    /\ UNCHANGED <<conv, user_data, text_edit_waiting, reply, snap, fund_rules,
                   funds, cache, now, served, book, adding, added, rule_run,
                   settings, sheets, access>>

\* append_operation (one row) or append_transfer (two rows) is called
append_rows_call(rows) ==
    /\ workers = <<>>
    /\ next_row_of_grid(register) + Len(rows) - 1 <= MaxGridRows
    /\ SheetStep(register, rows, "append_call")

\* _append_row for the next row of the call
sheet_append_row ==
    /\ workers # <<>>
    /\ SheetStep(update(register, next_row_of_grid(register), Head(workers)),
                 Tail(workers), "append_row")

InitSheet ==
    /\ conv = END
    /\ user_data = EmptyUD
    /\ text_edit_waiting = FALSE
    /\ register \in UNION {[1..n -> GridRows] : n \in 0..2}
    /\ reply = "none"
    /\ last = "none"
    /\ snap = NoSnap
    /\ fund_rules = <<>>
    /\ funds = NoFunds
    /\ workers = <<>>
    /\ cache = NoCache
    /\ now = 0
    /\ served = NoRead
    /\ book = NoBook
    /\ adding = NoAdding
    /\ added = NoAdded
    /\ rule_run = NoRuleRun
    /\ settings = NoSettings
    /\ sheets = Directories
    /\ access = NoAccess

NextSheet ==
    \/ \E row \in SheetRows : append_rows_call(<<row>>)
    \/ \E out, in \in SheetRows : append_rows_call(<<out, in>>)
    \/ sheet_append_row

SpecSheet == InitSheet /\ [][NextSheet]_vars

(***************************************************************************)
(* SpecMatch: match_wallet of _parse_short_form character by character.    *)
(* A text and a wallet name are the sequences of their characters;         *)
(* sheets.wallets is the wallet list, workers holds the remainder text of  *)
(* the call and reply what match_wallet returns.                           *)
(***************************************************************************)
\* str.lower() on one character and on a text
lower_char(ch) ==
    CASE ch = "A" -> "a" [] ch = "B" -> "b" [] ch = "C" -> "c"
      [] ch = "R" -> "r" [] OTHER -> ch
lower_text(s) == [i \in 1..Len(s) |-> lower_char(s[i])]

\* str.strip() on a sequence of characters
RECURSIVE lstrip(_)
lstrip(s) == IF s # <<>> /\ Head(s) = " " THEN lstrip(Tail(s)) ELSE s
RECURSIVE rstrip(_)
rstrip(s) ==
    IF s # <<>> /\ s[Len(s)] = " " THEN rstrip(SubSeq(s, 1, Len(s) - 1)) ELSE s
strip_text(s) == rstrip(lstrip(s))

\* str.startswith
startswith(s, prefix) ==
    Len(prefix) <= Len(s) /\ SubSeq(s, 1, Len(prefix)) = prefix

\* One step of sorted(..., key=len, reverse=True): w, which came after the
\* names of done in the list, goes behind those that are not shorter.
RECURSIVE insert_by_len(_, _)
insert_by_len(w, done) ==
    IF done = <<>> THEN <<w>>
    ELSE IF Len(Head(done)) >= Len(w)
    THEN <<Head(done)>> \o insert_by_len(w, Tail(done))
    ELSE <<w>> \o done

\* the wallet list as it stands, not sorted
wallets_in_list_order(wallets) == wallets

\* wallets_sorted = sorted(wallets, key=len, reverse=True)
RECURSIVE wallets_sorted(_)
wallets_sorted(wallets) ==
    IF wallets = <<>> THEN <<>>
    ELSE insert_by_len(wallets[Len(wallets)],
                       wallets_sorted(SubSeq(wallets, 1, Len(wallets) - 1)))

\* The loop of match_wallet over the sorted names: the first that the text
\* starts with, <<>> when there is none.
RECURSIVE first_prefix(_, _)
first_prefix(s, names) ==
    IF names = <<>> THEN <<>>
    ELSE IF startswith(lower_text(s), lower_text(Head(names)))
    THEN <<Head(names)>>
    ELSE first_prefix(s, Tail(names))

\* match_wallet(s): (w, after), or (None, s)
match_wallet_text(s, wallets) ==
    LET t == strip_text(s)
        w == first_prefix(t, wallets_sorted(wallets))
    IN  IF w = <<>> THEN [wallet |-> <<>>, after |-> t]
        ELSE [wallet |-> w,
              after |-> strip_text(SubSeq(t, Len(w[1]) + 1, Len(t)))]

\* The characters of the texts of SpecMatch, its wallet names (get_wallets
\* strips a name and drops an empty one) and its texts (the remainder is
\* stripped before it is matched).
MatchChars == {"a", "A", "b", " "}
MatchNames ==
    { <<"a">>, <<"A">>, <<"b">>, <<"A", "b">>, <<"a", " ", "b">> }
MatchWalletLists == UNION {[1..n -> MatchNames] : n \in 0..MaxMatchWallets}
MatchTexts ==
    {s \in UNION {[1..n -> MatchChars] : n \in 0..MaxTextLen} : strip_text(s) = s}

\* "Cash", "Cash Register" and "Cash Register 500 note"
Cash == <<"C", "a", "s", "h">>
CashRegister == Cash \o <<" ", "R", "e", "g", "i", "s", "t", "e", "r">>
CashRegisterNote ==
    CashRegister \o <<" ", "5", "0", "0", " ", "n", "o", "t", "e">>

\* match_wallet is called on the remainder text
match_wallet_call ==
    /\ workers # <<>>
    /\ reply' = match_wallet_text(Head(workers), sheets.wallets)
    /\ workers' = Tail(workers)
    /\ last' = "match_wallet"
    /\ UNCHANGED <<conv, user_data, text_edit_waiting, register, snap,
                   fund_rules, funds, cache, now, served, book, adding, added,
                   rule_run, settings, sheets, access>>

InitMatch ==
    /\ conv = END
    /\ user_data = EmptyUD
    /\ text_edit_waiting = FALSE
    /\ register = <<>>
    /\ reply = [wallet |-> <<>>, after |-> <<>>]
    /\ last = "none"
    /\ snap = NoSnap
    /\ fund_rules = <<>>
    /\ funds = NoFunds
    /\ \E text \in MatchTexts \cup {CashRegisterNote} : workers = <<text>>
    /\ cache = NoCache
    /\ now = 0
    /\ served = NoRead
    /\ book = NoBook
    /\ adding = NoAdding
    /\ added = NoAdded
    /\ rule_run = NoRuleRun
    /\ settings = NoSettings
    /\ \E wallets \in MatchWalletLists
                      \cup {<<Cash, CashRegister>>, <<CashRegister, Cash>>} :
         sheets = [Directories EXCEPT !.wallets = wallets]
    /\ access = NoAccess

NextMatch == match_wallet_call

SpecMatch == InitMatch /\ [][NextMatch]_vars

(***************************************************************************)
(* SpecParse: _parse_short_form on the messages of a small vocabulary.     *)
(* workers holds the words of the message, reply what the parser returns.  *)
(***************************************************************************)
ParseWords ==
    { "transfer", "Minus", "plus", "-", "2", "0", "-5", "inv2", "Bank",
      "cash", "(Acme)", "Acme" }
ParseMessages == UNION {[1..n -> ParseWords] : n \in 0..MaxWords}

\* "5000 Bank (Acme) invoice 42"
InvoiceMessage == <<"5000", "Bank", "(Acme)", "invoice", "42">>

\* _parse_short_form is called on the message
parse_short_form_call ==
    /\ workers # <<>>
    /\ reply' = parse_short_form(Head(workers), sheets.wallets)
    /\ workers' = Tail(workers)
    /\ last' = "parse_short_form"
    /\ UNCHANGED <<conv, user_data, text_edit_waiting, register, snap,
                   fund_rules, funds, cache, now, served, book, adding, added,
                   rule_run, settings, sheets, access>>

InitParse ==
    /\ conv = END
    /\ user_data = EmptyUD
    /\ text_edit_waiting = FALSE
    /\ register = <<>>
    /\ reply = <<>>
    /\ last = "none"
    /\ snap = NoSnap
    /\ fund_rules = <<>>
    /\ funds = NoFunds
    /\ \E parts \in ParseMessages \cup {InvoiceMessage} : workers = <<parts>>
    /\ cache = NoCache
    /\ now = 0
    /\ served = NoRead
    /\ book = NoBook
    /\ adding = NoAdding
    /\ added = NoAdded
    /\ rule_run = NoRuleRun
    /\ settings = NoSettings
    /\ sheets = Directories
    /\ access = NoAccess

NextParse == parse_short_form_call

SpecParse == InitParse /\ [][NextParse]_vars

(***************************************************************************)
(* SpecMixed: the dialog of Spec with the messages of the fast path sent   *)
(* at any time, also in the middle of a guided operation or while an older *)
(* fast-path draft waits for its confirmation.                             *)
(***************************************************************************)
MixedMessages ==
    { <<"plus", "1,5", "cash", "(Acme)", "Acme">>,
      <<"Minus", "2", "Bank", "Acme">> }
MixedTextData == {"text_confirm_yes", "text_art:0"}
MixedEditData == {"edit_back", "edit_article"}

\* The guided flow walked forward, the fast path, /cancel.
NextMixed ==
    \/ start_step
    \/ \E d \in {YESTERDAY} : date_preset(d)
    \/ \E data \in TypeData : GoesOn(data) /\ type_selected(data)
    \/ \E data \in ArticleStateData : GoesOn(data) /\ article_selected(data)
    \/ \E data \in WalletStateData : GoesOn(data) /\ wallet_selected(data)
    \/ \E text \in {"2"} : Intact /\ amount_entered(text)
    \/ Intact /\ counterparty_skip
    \/ Intact /\ purpose_skip
    \/ \E data \in {"confirm_yes", "confirm_no", "edit"} :
         GoesOn(data) /\ confirm_income_expense(data)
    \/ \E data \in MixedEditData : Intact /\ confirm_edit_menu(data)
    \/ \E data \in {"edit_back", "cancel"} \cup EditArticleData :
         GoesOn(data) /\ confirm_edit_article(data)
    \/ \E data \in TransferFromData : GoesOn(data) /\ transfer_from_selected(data)
    \/ \E data \in TransferToData : GoesOn(data) /\ transfer_to_selected(data)
    \/ \E text \in {"2"} : Intact /\ transfer_amount_entered(text)
    \/ Intact /\ transfer_purpose_skip
    \/ \E data \in {"confirm_yes", "confirm_no"} : confirm_transfer(data)
    \/ cancel_cmd
    \/ \E parts \in MixedMessages : handle_form_message(parts)
    \/ \E data \in MixedTextData : handle_text_form_callback(data)

SpecMixed == Init /\ [][NextMixed]_vars

(***************************************************************************)
(* SpecFast: the fast path alone, a new message sent at any time, also     *)
(* while an older draft waits for its category or its confirmation.        *)
(***************************************************************************)
FastMessages ==
    MixedMessages \cup { <<"Transfer", "2", "Bank", "Cash">>,
                         <<"transfer", "2", "Bank", "Bank">> }

NextFast ==
    \/ \E parts \in FastMessages : handle_form_message(parts)
    \/ \E text \in AmountTexts \cup FreeTexts : handle_form_waiting(text)
    \/ \E data \in TextData : handle_text_form_callback(data)

SpecFast == Init /\ [][NextFast]_vars

C2_SecondPassWritesNothing ==
    [][(/\ last' = "funds" /\ funds'.clean
        /\ funds.ran /\ funds.clean /\ funds.wrote > 0 /\ ~funds.touched)
         => register' = register]_vars

\* C2: one inflow row, and the rows of two transfers after it, the second
\* written by a pass that had nothing new to distribute.
C2_SecondPassWrote ==
    /\ last = "funds" /\ funds.clean /\ funds.wrote = 2
    /\ Len(register) = 5 /\ UserRows(register) = {1}
    /\ register[1][1] = TODAY /\ register[1][2] = 200

\* C5: a successful append_transfer adds two rows after the rows of the
\* register: the outflow row with the memo passed, then the inflow row with
\* the inflow memo when one is passed and with the memo otherwise; both
\* with the date and the absolute amount of the call.
C5_TransferRows ==
    [][last' = "transfer" =>
         /\ Len(register') = Len(register) + 2
         /\ SubSeq(register', 1, Len(register)) = register
         /\ register'[Len(register) + 1] =
              << funds'.call.date_str, 0 - Abs(funds'.call.amount),
                 funds'.call.wallet_from, funds'.call.business_direction, "",
                 strip(funds'.call.purpose), ARTICLE_TRANSFER_OUT >>
         /\ register'[Len(register) + 2] =
              << funds'.call.date_str, Abs(funds'.call.amount),
                 funds'.call.wallet_to, funds'.call.business_direction, "",
                 strip(IF funds'.call.purpose_inflow = <<>>
                       THEN funds'.call.purpose
                       ELSE funds'.call.purpose_inflow[1]),
                 ARTICLE_TRANSFER_IN >>]_vars

\* C5: append_transfer, called with an inflow memo, has written its rows.
C5_TransferWritten ==
    /\ last = "transfer" /\ funds.call.purpose_inflow # <<>>
    /\ Len(register) >= 2

\* C5, as the specification states it: both rows carry the memo of the call.
C5_SameMemo ==
    [][last' = "transfer" =>
         /\ Len(register') = Len(register) + 2
         /\ register'[Len(register) + 1][6] = strip(funds'.call.purpose)
         /\ register'[Len(register) + 2][6] = strip(funds'.call.purpose)]_vars

(***************************************************************************)
(* Properties of Spec.                                                     *)
(***************************************************************************)
\* The handler branches that take a press of a Confirm button.
ConfirmLabels ==
    { "save", "save_failed", "save_partial", "text_save", "text_save_failed",
      "text_save_partial", "text_expired", "confirm_fallback", "swallowed" }

\* C1, as the specification states it: a Confirm pressed once a row is
\* committed and the draft is empty appends no row, and its only effect is
\* the "session expired" reply.
C1_SecondConfirmExpires ==
    [][(last' \in ConfirmLabels /\ Len(register) > 0
          /\ Draft(user_data) = EmptyDraft)
         => (register' = register /\ reply' = "session_expired")]_vars

\* C1: a Confirm pressed after a commit, with the draft empty, was taken by
\* a handler that shows nothing.
C1_ConfirmSwallowed ==
    last = "swallowed" /\ Len(register) > 0 /\ Draft(user_data) = EmptyDraft

\* C3, as the specification states it: a cancel, by button or by the /cancel
\* command, in a state other than END ends the conversation and leaves the
\* draft empty.
C3_CancelEnds ==
    [][(last' \in {"cancel", "cancel_cmd"} /\ conv # END)
         => (conv' = END /\ Draft(user_data') = EmptyDraft)]_vars

\* C3: /cancel was handled and the conversation is still in a state.
C3_CancelCmdStays == last = "cancel_cmd" /\ conv # END

\* C6: the rows a commit of the fast path appends are the rows the commit of
\* the guided flow appends for a draft with the same field values.
C6_FastPathRows ==
    [][last' = "text_save" =>
         IF GetOr(user_data, "type", "") = "transfer"
         THEN \E res \in save_transfer_append(register, user_data, DIRECTION) :
                res.ok /\ register' = res.reg
         ELSE register' =
                save_income_expense_append(register, user_data, DIRECTION)]_vars

\* C6: the fast path has committed an expense.
C6_FastPathCommitted ==
    last = "text_save" /\ Len(register) = 1 /\ register[1][2] < 0

\* The state a back button returns to, and the states that have one.
Pred(c) ==
    CASE c = "TYPE_OP" -> "DATE"
      [] c = "ARTICLE" -> "TYPE_OP"
      [] c = "WALLET" -> "ARTICLE"
      [] c = "AMOUNT" -> "WALLET"
      [] c = "COUNTERPARTY" -> "AMOUNT"
      [] c = "PURPOSE" -> "COUNTERPARTY"
      [] c = "TRANSFER_FROM" -> "TYPE_OP"
      [] c = "TRANSFER_TO" -> "TRANSFER_FROM"
      [] c = "TRANSFER_AMOUNT" -> "TRANSFER_TO"
      [] c = "TRANSFER_PURPOSE" -> "TRANSFER_AMOUNT"
      [] OTHER -> "-"
BackStates == {c \in ConvStates : Pred(c) # "-"}

\* The draft field a state collects, and for the list states the field
\* their back button removes.
FieldOf(c) ==
    CASE c = "DATE" -> "date"
      [] c = "TYPE_OP" -> "type"
      [] c = "ARTICLE" -> "article"
      [] c = "WALLET" -> "wallet"
      [] c \in {"AMOUNT", "TRANSFER_AMOUNT"} -> "amount"
      [] c = "COUNTERPARTY" -> "counterparty"
      [] c \in {"PURPOSE", "TRANSFER_PURPOSE"} -> "purpose"
      [] c = "TRANSFER_FROM" -> "wallet_from"
      [] c = "TRANSFER_TO" -> "wallet_to"
OwnField(c) ==
    IF c \in {"ARTICLE", "WALLET", "TRANSFER_FROM", "TRANSFER_TO"}
    THEN {FieldOf(c)} ELSE {}

ForwardLabels ==
    { "date", "type", "article", "wallet", "amount", "counterparty",
      "wallet_from", "wallet_to" }
Redo ==
    /\ last = "back" /\ last' \in ForwardLabels
    /\ Has(snap.draft, FieldOf(conv))
    /\ user_data'[FieldOf(conv)] = snap.draft[FieldOf(conv)]
RedoFailed ==
    /\ last = "back"
    /\ last' \in {"type_fetch_failed", "article_fetch_failed",
                  "from_fetch_failed"}

InvalidLabels ==
    { "date_invalid", "amount_invalid", "edit_amount_invalid",
      "text_edit_amount_invalid" }

\* C9, as the specification states it: an invalid date or amount leaves the
\* state and the draft as they were and shows a correction prompt.
C9_InvalidStays ==
    [][last' \in InvalidLabels =>
         /\ conv' = conv /\ text_edit_waiting' = text_edit_waiting
         /\ reply' = "correction"
         /\ Draft(user_data') = Draft(user_data)]_vars

\* C9: the amount edit of the guided flow took an invalid amount and is back
\* at the confirmation.
C9_EditLeftState == last = "edit_amount_invalid" /\ conv = "CONFIRM"

\* The handler branches whose read of the sheet failed.
FetchFailedLabels ==
    { "type_fetch_failed", "article_fetch_failed", "from_fetch_failed",
      "back_fetch_failed", "edit_fetch_failed", "form_fetch_failed",
      "text_edit_fetch_failed" }

\* C10, as the specification states it: a failed read of the reference data
\* leaves the state and the draft as they were.
C10_FetchFailureStays ==
    [][last' \in FetchFailedLabels =>
         (conv' = conv /\ Draft(user_data') = Draft(user_data))]_vars

\* C10: the read of the articles failed and the conversation has ended with
\* the draft empty.
C10_FetchFailureEnded ==
    last = "type_fetch_failed" /\ conv = END /\ Draft(user_data) = EmptyDraft

\* The commit branches that end with a failure message.
CommitFailedLabels ==
    { "save_failed", "save_partial", "text_save_failed", "text_save_partial" }

\* C11, as the specification states it: a commit that ends with the write
\* error leaves the draft in user_data as it was.
C11_FailedCommitKeepsDraft ==
    [][(last' \in CommitFailedLabels /\ reply' = "write_error")
         => Draft(user_data') = Draft(user_data)]_vars

\* C11: the second append of a transfer failed in the guided commit; the
\* write error is shown, one row is written and the draft is empty.
C11_DraftLostAfterFailure ==
    /\ last = "save_partial" /\ reply = "write_error"
    /\ Len(register) = 1 /\ Draft(user_data) = EmptyDraft

\* C12, as the specification states it: a fund distribution pass in which a
\* read of the ledger failed shows the user the error and nothing else.
C12_FailedReadReported ==
    [][(last' \in {"funds", "funds_failed"} /\ ~funds'.reads)
         => reply' = "error"]_vars

\* C12: a pass in which a read failed has written transfers and reported
\* the distribution.
C12_FailedReadSilent ==
    /\ last = "funds" /\ ~funds.reads
    /\ reply = "distributed" /\ funds.wrote > 0

(***************************************************************************)
(* Properties of SpecCache.                                                *)
(***************************************************************************)
\* C13, as the specification states it: a read served from the cache
\* returns the balances or usage counts of the register as it is, never
\* those fetched before a write to the register.
C13_NoStaleCachedRead ==
    [][(last' = "cached" /\ served'.hit)
         => cache[served'.key][1].val = fetch_fn(served'.key, register)]_vars

\* C13: the usage counts were served from the cache, and they are not the
\* counts of the register: a row was written after they were fetched.
C13_StaleUsageServed ==
    /\ last = "cached" /\ served.hit /\ served.key = "article_usage"
    /\ cache["article_usage"] # <<>>
    /\ cache["article_usage"][1].val # article_usage_counts(register)

(***************************************************************************)
(* Properties of SpecReads.                                                *)
(***************************************************************************)
\* C14: a read through _cached is served from the cache exactly when the
\* key has an entry stored less than 300 s ago, and then returns it with
\* no fetch and leaves the cache alone; otherwise it calls the fetch, and a
\* fetch that returns replaces the entry by the fetched value and the time
\* the read began, while one that raises leaves the cache alone.
C14_CachedRead ==
    [][last' = "cached" =>
         LET key == served'.key
             stored == cache[key] # <<>> /\ now - cache[key][1].ts < 300
         IN  /\ served'.hit <=> stored
             /\ served'.hit =>
                  (served'.ok /\ served'.attempts = 0 /\ cache' = cache)
             /\ ~served'.hit => served'.attempts >= 1
             /\ (~served'.hit /\ served'.ok) =>
                  cache' = [cache EXCEPT ![key] =
                               <<[val |-> fetch_fn(key, register), ts |-> now]>>]
             /\ (~served'.hit /\ ~served'.ok) => cache' = cache]_vars

\* C14: a read was served from an entry stored before the last tick of the
\* clock.
C14_ServedFromCache ==
    /\ last = "cached" /\ served.hit
    /\ now - cache[served.key][1].ts > 0
    /\ now - cache[served.key][1].ts < 300

\* The reads of the Ledger Access Layer SpecReads follows.
ReadLabels ==
    {"cached", "get_balances", "get_daily_income",
     "get_fund_transfers_done_today"}

\* C15, as the specification states it: a read that calls its fetch makes
\* at most 3 calls, sleeps 2 s x the attempt number between two calls, and
\* gives up on a ConnectionError, OSError or TimeoutError only after the
\* third call.
C15_EveryReadRetries ==
    [][(last' \in ReadLabels /\ ~served'.hit) =>
         /\ served'.attempts \in 1..3
         /\ served'.slept = served'.attempts * (served'.attempts - 1)
         /\ served'.error = "transient" => served'.attempts = 3]_vars

\* C15: get_daily_income has raised the transient error of its first and
\* only read of the register.
C15_DailyIncomeNotRetried ==
    /\ last = "get_daily_income" /\ ~served.ok
    /\ served.error = "transient" /\ served.attempts = 1

(***************************************************************************)
(* Properties of SpecWallet and SpecAddWallet.                             *)
(***************************************************************************)
\* The books add_wallet leaves when it returns.
Returned(b, args) ==
    {res.book : res \in {r \in add_wallet(b, args[1], args[2], args[3]) : r.ok}}

\* C16, as the specification states it: when a call of add_wallet has
\* failed at a request to the spreadsheet, on a book where the call could
\* have returned, the same call made again with no request failing returns
\* and leaves the book one uninterrupted call would have left.
C16_RerunCompletes ==
    [][(/\ last' = "add_wallet"
        /\ added'.rerun /\ added'.error # "fault"
        /\ added.error = "fault"
        /\ Returned(added'.origin, added'.args) # {})
         => (added'.ok /\ book' \in Returned(added'.origin, added'.args))]_vars

\* C16: the call made again has raised: the settings row of the slot holds
\* the name and the sheet is renamed, the row of the summary is not named.
C16_RerunRaised ==
    /\ last = "add_wallet" /\ added.rerun /\ added.error = "raised"
    /\ added.args = <<1, 1, "Alpha">>
    /\ book.settings[1].a = "Alpha" /\ book.sheets[1].title = "Alpha"
    /\ book.summary[1].a = ""

\* A settings row bound to a wallet name: its column A holds no slot number.
Bound(row) == ~is_slot_number(row.a)

\* C17, as the specification states it: no step of the two users' flows
\* changes a settings row that is bound to a wallet name.
C17_BoundSlotKept ==
    [][\A p \in Slots :
         Bound(book.settings[p]) => book'.settings[p] = book.settings[p]]_vars

\* C17: the second user's name has replaced the first user's in the
\* settings row of slot 1, whose sheet still has the first user's name.
C17_BoundSlotOverwritten ==
    /\ last = "add_wallet_name" /\ added.error = "raised"
    /\ book.settings[1].a = "Beta" /\ book.sheets[1].title = "Alpha"

(***************************************************************************)
(* Properties of the fund distribution pass (SpecFunds).                   *)
(***************************************************************************)
\* What a pass whose reads all succeed finds in the register it starts from.
totalInflow == get_daily_income(register, TODAY, <<ARTICLE_TRANSFER_IN>>)
alreadyDistributedTotal ==
    SumValues(get_fund_transfers_done_today(register, TODAY), AllWallets)
totalPercent == total_percent(fund_rules)
ComputedBase == {"already_done", "not_performed", "distributed"}

\* C18, as the specification states it: the base of a pass is the day's
\* inflow less alreadyDistributedTotal * 100 / totalPercent (the whole
\* inflow when nothing was distributed or the percents sum to 0), and so a
\* pass that follows a pass which recorded a distribution, with no ledger
\* call between the two, has no base left to apply the percents to.
C18_BaseIsNewRevenue ==
    [][(last' = "funds" /\ funds'.reads /\ reply' \in ComputedBase) =>
         /\ IF totalPercent > 0 /\ alreadyDistributedTotal > 0
            THEN funds'.base * totalPercent
                   = totalInflow * totalPercent - alreadyDistributedTotal * 100
            ELSE funds'.base = totalInflow
         /\ (funds.ran /\ funds.clean /\ funds.wrote > 0 /\ ~funds.touched)
              => funds'.base <= 0]_vars

\* C18: one inflow of 2.00 under the rules of 10 % and 70 %.  The first pass
\* transfers 1 (0.20 rounds to 0, 1.40 to 1); the second pass, with no new
\* inflow, finds 2.00 - 1.00 * 100 / 80 = 0.75 as its base and transfers 1
\* once more.
C18_BaseLeftAfterDistribution ==
    /\ last = "funds" /\ funds.clean /\ funds.base = 75 /\ funds.wrote = 2
    /\ Len(register) = 5 /\ UserRows(register) = {1}
    /\ register[1][1] = TODAY /\ register[1][2] = 200

(***************************************************************************)
(* Properties of SpecRule.                                                 *)
(***************************************************************************)
\* new_revenue * percent / 100 to the nearest whole currency unit, an exact
\* half going up; revenue in kopecks, percent in hundredths of a percent.
HalfUp(revenue, percent) == (revenue * percent + 500000) \div 1000000

\* C19, as the specification states it: for a new revenue above 0 and an
\* active rule the amount transferred is new_revenue * percent / 100 rounded
\* to the nearest whole unit with an exact half rounded up, and a rule whose
\* rounded amount is 0 or less writes no transfer.
C19_RoundedHalfUp ==
    [][(last' = "rule" /\ rule_run.new_revenue > 0 /\ rule_run.percent > 0) =>
         /\ rule_run'.to_transfer
              = HalfUp(rule_run.new_revenue, rule_run.percent)
         /\ HalfUp(rule_run.new_revenue, rule_run.percent) <= 0
              => register' = register
         /\ register' # register
              => register'[Len(register) + 1][2]
                   = 0 - HalfUp(rule_run.new_revenue, rule_run.percent) * 100]_vars

\* C19: a new revenue of 1500 under a rule of 2.3 % is due 34.5, and 34 is
\* transferred: the float product 1500 * 2.3 is 3449.9999999999995.
C19_HalfRoundedDown ==
    /\ last = "rule" /\ rule_run.done
    /\ rule_run.new_revenue = 150000 /\ rule_run.percent = 230
    /\ rule_run.to_transfer = 34
    /\ Len(register) = 2 /\ register[1][2] = 0 - 3400

(***************************************************************************)
(* Properties of the early returns of the pass (SpecFunds).                *)
(***************************************************************************)
\* newRevenue <= 0 for the register a pass starts from, without the
\* division: totalInflow - alreadyDistributedTotal * 100 / totalPercent <= 0
\* when something was distributed and the percents sum above 0, and
\* totalInflow <= 0 otherwise.
NothingNew ==
    IF totalPercent > 0 /\ alreadyDistributedTotal > 0
    THEN totalInflow * totalPercent <= alreadyDistributedTotal * 100
    ELSE totalInflow <= 0
NoTransferReplies == {"no_income", "already_done"}

\* C20: a pass that finds an inflow of 0 or less for the day writes no row
\* and answers that there was no income; a pass that finds an inflow, rules
\* and a newRevenue of 0 or less writes no row and answers that the
\* distribution is already done; and no pass at all writes a row with one
\* of the two answers, or enters the loop with a newRevenue of 0 or less.
C20_NothingToDistribute ==
    [][last' = "funds" =>
         /\ (funds'.reads /\ totalInflow <= 0)
              => (register' = register /\ reply' = "no_income")
         /\ (funds'.reads /\ totalInflow > 0 /\ fund_rules # <<>> /\ NothingNew)
              => (register' = register /\ reply' = "already_done"
                  /\ funds'.base <= 0)
         /\ reply' \in NoTransferReplies => register' = register
         /\ reply' \in {"distributed", "not_performed"} => funds'.base > 0]_vars

\* C20: one inflow of 2.00 under the one active rule of 50 %; the first
\* pass has transferred 1, and the second finds 2.00 - 1.00 * 100 / 50 = 0
\* and writes nothing.
C20_AlreadyDistributed ==
    /\ last = "funds" /\ reply = "already_done" /\ funds.reads
    /\ funds.wrote = 0 /\ funds.base = 0
    /\ Len(register) = 3 /\ UserRows(register) = {1}
    /\ register[1][1] = TODAY /\ register[1][2] = 200
    /\ total_percent(fund_rules) = 50

(***************************************************************************)
(* Properties of the reads of the pass (SpecFunds).                        *)
(***************************************************************************)
\* The rows of today an append_transfer wrote as the inflow of a transfer.
TransferInflowRows(reg) ==
    {i \in 1..Len(reg) :
        reg[i] # BlankRow /\ reg[i][1] = TODAY /\ reg[i][2] > 0
        /\ reg[i][7] = ARTICLE_TRANSFER_IN}

\* C21, as the specification states it: the day's income a pass reads is the
\* sum of the positive amounts of the rows of the day whose article is not
\* the inflow article of a transfer, so that it counts no inflow row of a
\* transfer or of a fund transfer.
C21_IncomeExcludesTransfers ==
    [][last' = "funds" =>
         /\ funds'.income = totalInflow
         /\ (\A i \in 1..Len(register) :
               i \in TransferInflowRows(register) \/ register[i] = BlankRow
               \/ register[i][1] # TODAY \/ register[i][2] <= 0)
              => funds'.income = 0]_vars

\* C21: the register holds the two rows of one transfer of 1.00 from Bank to
\* Cash and nothing else; get_transfer_articles raises inside
\* get_daily_income, and the pass reads an income of 1.00.
C21_TransferCountedAsIncome ==
    /\ last = "funds" /\ funds.income = 100 /\ ~funds.reads
    /\ Len(register) >= 2
    /\ TransferInflowRows(SubSeq(register, 1, 2)) = {2}
    /\ register[1][2] = 0 - 100 /\ register[2][3] = "Cash"

\* What get_fund_transfers_done_today counts for the day in a register.
DoneToday(reg) == get_fund_transfers_done_today(reg, TODAY)

C23_PercentInRange ==
    \A i \in 1..Len(fund_rules) :
        0 <= fund_rules[i].percent /\ fund_rules[i].percent <= 100

\* C23: the user opens the edit of the rule, asks to type the percent and
\* sends "150": the rule is saved with 150 %.
C23_PercentAboveHundred ==
    /\ last = "fund_input" /\ reply = "rule_updated"
    /\ Len(fund_rules) = 1 /\ fund_rules[1].percent = 150
    /\ fund_rules[1].destination = "Fund B"

\* The rows a step wrote: the rows of the register after it that the register
\* before it did not hold at the same place.
WrittenRows(before, after) ==
    {i \in 1..Len(after) : i > Len(before) \/ after[i] # before[i]}

\* C24: a draft that has an amount has a positive one, and a commit writes
\* the amount negative exactly on the row of an outflow and on the source row
\* of a transfer, and positive on every other row.
C24_SignAtCommit ==
    /\ [](Has(user_data, "amount") => Get(user_data, "amount") > 0)
    /\ [][\A i \in WrittenRows(register, register') :
            IF \/ GetOr(user_data, "type", "") = "out"
               \/ /\ GetOr(user_data, "type", "") = "transfer"
                  /\ register'[i][3] = GetOr(user_data, "wallet_from", "")
                  /\ register'[i][7] = ARTICLE_TRANSFER_OUT
            THEN register'[i][2] = 0 - Get(user_data, "amount")
            ELSE register'[i][2] = Get(user_data, "amount")]_vars

\* C24: an outflow was committed with the negated amount of its draft.
C24_OutflowCommitted ==
    /\ last \in {"save", "text_save"}
    /\ Len(register) = 1
    /\ register[1][2] < 0
    /\ register[1][7] # ARTICLE_TRANSFER_OUT

(***************************************************************************)
(* Properties of SpecPages.                                                *)
(***************************************************************************)
\* The keys of user_data that hold a page index.
PageKeys ==
    { "_articles_page", "_wallets_page", "_edit_wallets_page",
      "_text_articles_page", "_text_edit_articles_page" }

\* The list states: the key of the list each shows and the key of its page.
\* The two lists of the fast path are shown while user_data holds them.
ListStates ==
    { [on |-> conv = "ARTICLE", items |-> "_articles",
       page |-> "_articles_page"],
      [on |-> conv = "WALLET", items |-> "_wallets", page |-> "_wallets_page"],
      [on |-> conv = "TRANSFER_FROM", items |-> "_wallets",
       page |-> "_wallets_page"],
      [on |-> conv = "TRANSFER_TO", items |-> "_wallets",
       page |-> "_wallets_page"],
      [on |-> conv = "CONFIRM_EDIT_ARTICLE", items |-> "_articles",
       page |-> "_articles_page"],
      [on |-> conv = "CONFIRM_EDIT_WALLET", items |-> "_edit_wallets",
       page |-> "_edit_wallets_page"],
      [on |-> Has(user_data, "_text_articles"), items |-> "_text_articles",
       page |-> "_text_articles_page"],
      [on |-> Has(user_data, "_text_edit_articles"),
       items |-> "_text_edit_articles",
       page |-> "_text_edit_articles_page"] }

\* A page button was pressed: nothing but a page index has changed.
OnlyPageChanged ==
    /\ conv' = conv
    /\ \A k \in Keys \ PageKeys : user_data'[k] = user_data[k]
    /\ UNCHANGED <<text_edit_waiting, register>>

\* The page index of every list shown is a page of its list.
PagesInRange ==
    \A l \in ListStates :
      (l.on /\ Has(user_data, l.page)) =>
        /\ 0 <= Get(user_data, l.page)
        /\ Get(user_data, l.page) * LIST_PAGE_SIZE
             < Len(GetOr(user_data, l.items, <<>>))

\* C25: a page button in a list state changes nothing but the page index,
\* and the page index of a list state is a page of the list:
\* 0 <= page and page * 9 < number of options.
C25_Pagination ==
    /\ [][last' \in {"page", "text_page", "page_refused"} => OnlyPageChanged]_vars
    /\ []PagesInRange

\* C25: the wallet list of the guided flow is shown with no wallet in it.
C25_EmptyList ==
    /\ conv = "WALLET"
    /\ Get(user_data, "_wallets_page") = 0
    /\ Get(user_data, "_wallets") = <<>>

\* C25, side check: a page button changes nothing but the page index.
C25_PageOnly ==
    [][last' \in {"page", "text_page", "page_refused"} => OnlyPageChanged]_vars

\* C25, side check: the page index is a page of every list that is not empty.
C25_PagesOfNonEmptyLists ==
    \A l \in ListStates :
      (l.on /\ Has(user_data, l.page)
         /\ GetOr(user_data, l.items, <<>>) # <<>>) =>
        /\ 0 <= Get(user_data, l.page)
        /\ Get(user_data, l.page) * LIST_PAGE_SIZE
             < Len(GetOr(user_data, l.items, <<>>))

\* C25, side check: the third page of the wallets is shown.
C25_ThirdPage ==
    conv = "WALLET" /\ Get(user_data, "_wallets_page") = 2

\* The states of the specification's guided flow that the states of the
\* conversation stand for.
StateOf(c) ==
    CASE c = END -> "Terminal"
      [] c = "DATE" -> "Date"
      [] c = "TYPE_OP" -> "TypeSelect"
      [] c = "ARTICLE" -> "CategorySelect"
      [] c = "WALLET" -> "WalletSelect"
      [] c = "TRANSFER_FROM" -> "TransferFromSelect"
      [] c = "TRANSFER_TO" -> "TransferToSelect"
      [] c \in {"AMOUNT", "TRANSFER_AMOUNT"} -> "AmountEntry"
      [] c = "COUNTERPARTY" -> "CounterpartyEntry"
      [] c \in {"PURPOSE", "TRANSFER_PURPOSE"} -> "MemoEntry"
      [] c \in {"CONFIRM", "TRANSFER_CONFIRM"} -> "Confirm"
      [] OTHER -> "EditMenu"

\* The order of the specification: the states a state is entered from on the
\* way to Confirm.
EnteredFrom(s) ==
    CASE s = "TypeSelect" -> {"Date"}
      [] s \in {"CategorySelect", "TransferFromSelect"} -> {"TypeSelect"}
      [] s = "WalletSelect" -> {"CategorySelect"}
      [] s = "TransferToSelect" -> {"TransferFromSelect"}
      [] s = "AmountEntry" -> {"WalletSelect", "TransferToSelect"}
      [] s = "CounterpartyEntry" -> {"AmountEntry"}
      [] s = "MemoEntry" -> {"CounterpartyEntry"}
      [] s = "Confirm" -> {"MemoEntry", "EditMenu"}
      [] s = "EditMenu" -> {"Confirm"}
      [] OTHER -> {}

\* A step of the flow of the specification from state s to state t: forward
\* in the order, back to the state before, to Terminal (commit, cancel or a
\* failed read), or to Date (a new start).
FlowStep(s, t) ==
    \/ s = t
    \/ s \in EnteredFrom(t)
    \/ t \in EnteredFrom(s) /\ s \notin {"Confirm", "EditMenu"}
    \/ t \in {"Terminal", "Date"}

ConvEnteredFrom(c) ==
    CASE c = "TYPE_OP" -> {"DATE"}
      [] c \in {"ARTICLE", "TRANSFER_FROM"} -> {"TYPE_OP"}
      [] c = "WALLET" -> {"ARTICLE"}
      [] c = "AMOUNT" -> {"WALLET"}
      [] c = "COUNTERPARTY" -> {"AMOUNT"}
      [] c = "PURPOSE" -> {"COUNTERPARTY"}
      [] c = "CONFIRM" ->
           {"PURPOSE", "CONFIRM_EDIT_MENU", "CONFIRM_EDIT_ARTICLE",
            "CONFIRM_EDIT_WALLET", "CONFIRM_EDIT_INPUT"}
      [] c = "CONFIRM_EDIT_MENU" ->
           {"CONFIRM", "CONFIRM_EDIT_ARTICLE", "CONFIRM_EDIT_WALLET"}
      [] c \in {"CONFIRM_EDIT_ARTICLE", "CONFIRM_EDIT_WALLET",
                "CONFIRM_EDIT_INPUT"} -> {"CONFIRM_EDIT_MENU"}
      [] c = "TRANSFER_TO" -> {"TRANSFER_FROM"}
      [] c = "TRANSFER_AMOUNT" -> {"TRANSFER_TO"}
      [] c = "TRANSFER_PURPOSE" -> {"TRANSFER_AMOUNT"}
      [] c = "TRANSFER_CONFIRM" -> {"TRANSFER_PURPOSE"}
      [] OTHER -> {}

\* The states with no way back: the confirmation and the edit sub-flow.
NoBack ==
    { "CONFIRM", "CONFIRM_EDIT_MENU", "CONFIRM_EDIT_ARTICLE",
      "CONFIRM_EDIT_WALLET", "CONFIRM_EDIT_INPUT", "TRANSFER_CONFIRM" }

ConvStep(c, d) ==
    \/ c = d
    \/ c \in ConvEnteredFrom(d)
    \/ d \in ConvEnteredFrom(c) /\ c \notin NoBack
    \/ d \in {END, "DATE"}

C26_ConfirmReached == conv = "CONFIRM" /\ last = "edited"

C27_WrittenAfterCancel ==
    [][(Len(workers) = 1 /\ Len(workers') = 0 /\ last = "cancel_cmd")
         => register' = register]_vars

(***************************************************************************)
(* Properties of SpecAccess.                                               *)
(***************************************************************************)
\* The user the updates come from is not in a non-empty allow-list.
NotListed ==
    access.allowed_ids # {} /\ access.user \notin access.allowed_ids

\* C28: an update of a user who is not in a non-empty allow-list sends no
\* message and changes no session, waiting set, fund rule, cache or ledger
\* state; with an empty allow-list no update is denied.
C28_SilentDenial ==
    /\ [][(NotListed /\ access' = access)
            => UNCHANGED <<conv, user_data, text_edit_waiting, register, reply,
                           snap, fund_rules, funds, workers, cache, now,
                           served, book, adding, added, rule_run, settings,
                           sheets>>]_vars
    /\ [](access.allowed_ids = {} => last # "denied")

\* C28: an update of user 2 was denied after user 1, who is in the list, has
\* committed an operation.
C28_Denied ==
    /\ last = "denied"
    /\ access.user = 2
    /\ access.allowed_ids = {1}
    /\ Len(register) = 1

(***************************************************************************)
(* Properties of SpecSheet.                                                *)
(***************************************************************************)
\* The cell of row i, column c of a grid; "" beyond its last row.
Cell(grid, i, c) == IF i <= Len(grid) THEN grid[i][c] ELSE ""

\* C29: each _append_row writes the seven cells C..I of one row of the
\* register with the seven values of its row, and leaves A, B, J and K of
\* that row and every cell of every other row as they were.
C29_SevenCells ==
    [][last' = "append_row" =>
         \E n \in 1..Len(register') :
           /\ \A c \in RangeColumns :
                register'[n][c] = Head(workers)[c - COL_DATE + 1]
           /\ \A c \in SheetColumns \ RangeColumns :
                register'[n][c] = Cell(register, n, c)
           /\ \A i \in 1..Len(register') \ {n} :
                \A c \in SheetColumns :
                  register'[i][c] = Cell(register, i, c)
           /\ Len(register') >= Len(register)]_vars

\* C29: a row was written into a row of the sheet that holds formulas.
C29_WrittenBesideFormulas ==
    /\ last = "append_row"
    /\ \E n \in 1..Len(register) :
         /\ register[n][COL_DATE] = "02.11.2026"
         /\ register[n][1] = "=formula"
         /\ register[n][11] = "=formula"

(***************************************************************************)
(* Properties of SpecMatch.                                                *)
(***************************************************************************)
\* The names of the list that the text starts with, whatever the case.
PrefixNames(s, wallets) ==
    {w \in {wallets[i] : i \in 1..Len(wallets)} :
        startswith(lower_text(s), lower_text(w))}

\* C30: match_wallet returns a name of the list that the text starts with,
\* case ignored, and that no other such name of the list is longer than;
\* it returns no wallet exactly when the text starts with no name of the
\* list.
C30_LongestPrefix ==
    [][last' = "match_wallet" =>
         LET names == PrefixNames(Head(workers), sheets.wallets)
         IN  IF names = {} THEN reply'.wallet = <<>>
             ELSE /\ reply'.wallet # <<>>
                  /\ reply'.wallet[1] \in names
                  /\ \A w \in names : Len(w) <= Len(reply'.wallet[1])]_vars

\* C30: of "Cash" and "Cash Register", "Cash Register 500 note" gave
\* "Cash Register".
C30_CashRegister ==
    /\ last = "match_wallet"
    /\ sheets.wallets = <<Cash, CashRegister>>
    /\ reply = [wallet |-> <<CashRegister>>,
                after |-> <<"5", "0", "0", " ", "n", "o", "t", "e">>]

(***************************************************************************)
(* Properties of SpecParse.                                                *)
(***************************************************************************)
\* A word that is a number and nothing else: digits, with at most one
\* decimal comma or point.
BareNumber(w) ==
    /\ w \in AmountWords
    /\ \A i \in 1..Len(Chars(w)) : Chars(w)[i] \in Digits \cup {".", ","}
    /\ WordAmount(w) # <<>>

\* The kind the first word of a message stands for ("none": no operation).
KindOf(first) ==
    IF lower(first) \in TYPE_TRANSFER THEN "transfer"
    ELSE IF lower(first) \in TYPE_OUT \/ first = "-" THEN "out"
    ELSE IF lower(first) \in TYPE_IN THEN "in"
    ELSE IF BareNumber(first) /\ WordAmount(first)[1] > 0 THEN "in"
    ELSE "none"

\* C31: the parser returns a draft only for a message whose first word is
\* the transfer keyword, an outflow keyword or "-", an inflow keyword or a
\* bare positive number, of the kind that word stands for, with the amount
\* word parsed to more than 0 and a wallet of the list.
C31_FirstToken ==
    [][last' = "parse_short_form" /\ reply' # <<>> =>
         LET parts == Head(workers)
             data == reply'[1]
         IN  /\ KindOf(parts[1]) # "none"
             /\ data.type = KindOf(parts[1])
             /\ data.amount > 0
             /\ \A k \in {"wallet", "wallet_from", "wallet_to"} :
                  data[k] = "" \/ \E i \in 1..Len(sheets.wallets) :
                                     data[k] = sheets.wallets[i]]_vars

\* C31: a draft is of the kind of its first word when that word stands for
\* one (a side property, which holds).
C31_KindOfKnownFirst ==
    [][last' = "parse_short_form" /\ reply' # <<>>
          /\ KindOf(Head(workers)[1]) # "none" =>
         /\ reply'[1].type = KindOf(Head(workers)[1])
         /\ reply'[1].amount > 0]_vars

\* C31: "5000 Bank (Acme) invoice 42" gave an inflow of 5000 into Bank from
\* Acme with the memo "invoice 42".
C31_Invoice ==
    /\ last = "parse_short_form"
    /\ reply = << [type |-> "in", date |-> TODAY, amount |-> 500000,
                   wallet |-> "Bank", wallet_from |-> "", wallet_to |-> "",
                   counterparty |-> "Acme", purpose |-> "invoice 42"] >>

(***************************************************************************)
(* Properties of SpecMixed.                                                *)
(***************************************************************************)
\* The states of the conversation that have no handler for a text message
\* among those of the guided pass, and the events of handle_form for a
\* message in the format of an operation.
ButtonStates ==
    { "TYPE_OP", "ARTICLE", "WALLET", "CONFIRM", "CONFIRM_EDIT_MENU",
      "TRANSFER_FROM", "TRANSFER_TO", "TRANSFER_CONFIRM" }
FormLabels == {"form", "form_no_articles", "form_fetch_failed", "form_unparsed"}

\* C32: a message of the fast path handled while the conversation is in a
\* state without a text handler changes no field of the draft.
C32_NoInterference ==
    [][last' \in FormLabels /\ conv \in ButtonStates =>
         Draft(user_data') = Draft(user_data)]_vars

\* C32: the guided Confirm wrote a row with today's date, which only a
\* message of the fast path puts in the draft (the guided passes of
\* SpecMixed all pick yesterday).
C32_ForeignValueCommitted ==
    /\ last = "save"
    /\ register # <<>>
    /\ register[Len(register)][1] = TODAY

(***************************************************************************)
(* Properties of SpecFast.                                                 *)
(***************************************************************************)
\* The rows of the register that are no half of a transfer.
OperationRows ==
    {i \in 1..Len(register) :
        register[i][7] \notin {ARTICLE_TRANSFER_OUT, ARTICLE_TRANSFER_IN}}

\* C33: every inflow row of the register has an inflow category and every
\* outflow row an outflow category.
C33_CategoryOfKind ==
    \A i \in OperationRows :
        /\ register[i][2] > 0 => register[i][7] \in SeqToSet(ARTICLES_IN)
        /\ register[i][2] < 0 => register[i][7] \in SeqToSet(ARTICLES_OUT)

\* C33: the fast path committed an outflow.
C33_OutflowRow ==
    /\ last = "text_save"
    /\ \E i \in OperationRows : register[i][2] < 0

(***************************************************************************)
(* Properties of Spec: the end of a session.                               *)
(***************************************************************************)
\* C34: with the conversation ended and no session of the fast path open,
\* user_data holds no field of a draft.
C34_NoDraftAtEnd ==
    conv = END /\ ~Has(user_data, "_from_text") => Draft(user_data) = EmptyDraft

\* C34: a commit, /cancel and a failed fetch leave no field of a draft.
C34_ClearedEnds ==
    [][last' \in {"save", "text_save", "cancel", "type_fetch_failed"} /\ conv' = END
          => Draft(user_data') = EmptyDraft]_vars

\* C34: the conversation ended on "no categories for this type" with the
\* date and the type still in user_data.
C34_DraftLeft ==
    /\ conv = END
    /\ reply = "no_articles"
    /\ Has(user_data, "date") /\ Has(user_data, "type")

(***************************************************************************)
(* Properties of SpecFunds: a transfer that fails.                         *)
(***************************************************************************)
\* C35: a call of append_transfer that ends in an exception leaves the
\* register as it found it.
C35_AllOrNothing ==
    [][last' = "transfer_failed" => register' = register]_vars

\* C35: every outflow row of a transfer in the register is followed by its
\* inflow row (a side property, violated like the first).
C35_NoLoneOutflow ==
    \A i \in 1..Len(register) :
        register[i][7] = ARTICLE_TRANSFER_OUT =>
            /\ i < Len(register)
            /\ register[i + 1][7] = ARTICLE_TRANSFER_IN

\* C35: append_transfer raised and the last row of the register is the
\* outflow row of the transfer.
C35_OutflowAlone ==
    /\ last = "transfer_failed"
    /\ register # <<>>
    /\ register[Len(register)][7] = ARTICLE_TRANSFER_OUT

(***************************************************************************)
(* Properties of SpecFast and Spec: the wallets of a transfer.             *)
(***************************************************************************)
\* The rows i of the register that are the outflow row of a transfer with
\* its inflow row behind it.
TransferPairs ==
    {i \in 1..Len(register) - 1 :
        /\ register[i][7] = ARTICLE_TRANSFER_OUT
        /\ register[i + 1][7] = ARTICLE_TRANSFER_IN}

\* C36: the two rows of a committed transfer name different wallets.
C36_DistinctWallets ==
    \A i \in TransferPairs : register[i][3] # register[i + 1][3]

\* C36: the fast path committed a transfer.
C36_TransferCommitted ==
    /\ last = "text_save"
    /\ TransferPairs # {}

(***************************************************************************)
(* Properties of SpecFundSettings: an edit that is left.                   *)
(***************************************************************************)
\* The edit of an existing rule is open: the index of the rule is kept.
EditOpen(s) == s.idx # <<>> /\ s.idx[1] >= 0

\* C37: opening the edit of a rule, choosing a source or a destination in
\* it, and leaving with one of the two back buttons each leave
\* bot_data["fund_rules"] as it was, so that the list read after the edit
\* was left is the list of before it was opened.
C37_AbandonedEditKeeps ==
    [][\/ last' \in {"funds_edit", "funds_back", "funds_back_to_list"}
       \/ last' \in {"funds_src", "funds_dst"} /\ EditOpen(settings)
       => fund_rules' = fund_rules]_vars

\* C37: the two back buttons themselves change no rule (a side property,
\* which holds).
C37_BackKeeps ==
    [][last' \in {"funds_back", "funds_back_to_list"}
          => fund_rules' = fund_rules]_vars

\* C37: the user is back at the list and the rule of 70 %, for which no
\* percent was chosen since, has the source chosen in the edit.
C37_EditLeftChanged ==
    /\ last = "funds_back_to_list"
    /\ Len(fund_rules) = 1
    /\ fund_rules[1] = [source |-> "Cash", destination |-> "Fund B",
                        percent |-> 70]

(***************************************************************************)
(* SpecCacheRace: _cached in its three steps (the clock read and the look  *)
(* at _cache, the call of fetch_fn, the store of its value), with the      *)
(* commits and the other reads that run between them.                      *)
(***************************************************************************)
\* One step of SpecCacheRace that leaves the register and the clock alone.
RaceStep(c, w, s, ev) ==
    /\ Len(register) <= MaxCacheRows
    /\ register' = register
    /\ cache' = c
    /\ workers' = w
    /\ served' = s
    /\ last' = ev
    /\ UNCHANGED <<conv, user_data, text_edit_waiting, reply, snap, fund_rules,
                   funds, now, book, adding, added, rule_run, settings,
                   sheets, access>>

\* _cached up to the call of fetch_fn: `now = time.monotonic()`, and no
\* entry of the key that is still fresh
cached_begin(key) ==
    /\ Len(workers) < MaxFetches
    /\ ~(cache[key] # <<>> /\ fresh(cache[key][1].ts, now))
    /\ RaceStep(cache, Append(workers, [key |-> key, ts |-> now, val |-> <<>>]),
                served, "cached_begin")

\* fetch_fn of the call in flight reads the register
cached_fetch(i) ==
    /\ workers[i].val = <<>>
    /\ RaceStep(cache,
                [workers EXCEPT ![i].val = <<fetch_fn(workers[i].key, register)>>],
                served, "cached_fetch")

\* `self._cache[key] = (val, now)` and the return of the call in flight
cached_store(i) ==
    /\ workers[i].val # <<>>
    /\ RaceStep([cache EXCEPT ![workers[i].key] =
                    <<[val |-> workers[i].val[1], ts |-> workers[i].ts]>>],
                SubSeq(workers, 1, i - 1) \o SubSeq(workers, i + 1, Len(workers)),
                [key |-> workers[i].key, ok |-> TRUE, hit |-> FALSE,
                 error |-> "none", attempts |-> 1, slept |-> 0],
                "cached_store")

InitCacheRace == InitCache

NextCacheRace ==
    \/ tick
    \/ \E key \in CacheKeys : cached_begin(key)
    \/ \E i \in 1..Len(workers) : cached_fetch(i)
    \/ \E i \in 1..Len(workers) : cached_store(i)
    \/ \E key \in CacheKeys, outcomes \in PlainOutcomes : cached(key, outcomes)
    \/ \E outcomes \in PlainOutcomes : commit_operation(100, outcomes)

SpecCacheRace == InitCacheRace /\ [][NextCacheRace]_vars

CommitLabels ==
    {"save", "save_failed", "save_partial",
     "text_save", "text_save_failed", "text_save_partial"}

\* The draft holds every field a commit reads.
DraftComplete(ud) ==
    /\ Has(ud, "date")
    /\ Has(ud, "type")
    /\ Has(ud, "amount")
    /\ Get(ud, "amount") > 0
    /\ IF Get(ud, "type") = "transfer"
       THEN Has(ud, "wallet_from") /\ Has(ud, "wallet_to")
       ELSE Has(ud, "article") /\ Has(ud, "wallet")

\* C39: a Confirm press that runs the commit finds a complete draft: the
\* date, the kind, an amount above 0, and the category and the wallet of an
\* inflow or outflow or the two wallets of a transfer.
C39_CommitReadsCompleteDraft ==
    [][last' \in CommitLabels => DraftComplete(user_data)]_vars

\* A Confirm press of the fast path ran the commit on a draft with no
\* category and ended with no row written.
C39_CommitWithoutCategory ==
    /\ last = "text_save_failed"
    /\ reply = "no_article"
    /\ user_data = EmptyUD

\* No add-rule and no edit-rule flow is in progress: user_data holds no
\* _settings_fund_rule_idx, no new rule and no draft list.
NoRuleFlow(s) == s.idx = <<>> /\ s.new_rule = <<>> /\ s.draft = <<>>

\* C40: a press of a percent button that finds no add-rule and no edit-rule
\* flow in progress leaves bot_data["fund_rules"] as it was.
C40_StrayPercentKeeps ==
    [][last' = "funds_pct" /\ NoRuleFlow(settings)
          => fund_rules' = fund_rules]_vars

\* C40: a press of a percent button in an add-rule flow leaves the rules
\* that were there as they were (a side property, which holds).
C40_AddKeepsOthers ==
    [][last' = "funds_pct" /\ settings.idx # <<>> /\ settings.idx[1] < 0
          => /\ Len(fund_rules') >= Len(fund_rules)
             /\ SubSeq(fund_rules', 1, Len(fund_rules)) = fund_rules]_vars

\* The second press of the button that added a rule of 20 % was taken as the
\* edit of the first rule: the rule of 70 % is at 20 % with its source and
\* destination, next to the added rule.
C40_FirstRuleOverwritten ==
    /\ last = "funds_pct"
    /\ reply = "rule_updated"
    /\ NoRuleFlow(settings)
    /\ Len(fund_rules) = 2
    /\ fund_rules[1] = [source |-> "Bank", destination |-> "Fund B",
                        percent |-> 20]
    /\ fund_rules[2].percent = 20

=============================================================================
